---- MODULE Spec2Model ----
(***************************************************************************)
(* Verification model of the bct/bcts front-end core.                      *)
(*                                                                         *)
(* Part D: the bracer (crates/bcts/src/bracer.rs): bracer() builds four    *)
(* flat pre-order vectors from a token list, BracerIter::next2 walks them. *)
(* Part C: the tokenizer (crates/bct/src/lexer.rs): lex_chunk.             *)
(* Part A: the segmenter (crates/bct/src/source_map.rs): source_map.       *)
(* Part B: the chunker (crates/bct/src/chunks.rs): chunks, on the Chunk    *)
(* that the segmenter returns.                                             *)
(* Part E: lines (crates/bct/src/lines.rs): BracerIter::lines.             *)
(* Part F: the module graph (crates/bct/src/module_graph.rs):              *)
(* ModuleGraphBuilder.                                                     *)
(* Part G: package world resolution                                        *)
(* (crates/bct/src/package_resolve2.rs): resolve_package_world.            *)
(*                                                                         *)
(* All indices and ranges keep the Rust values (0-based, half-open);       *)
(* a TLA+ sequence s holds Rust element i at s[i+1].                       *)
(***************************************************************************)
EXTENDS Integers, Sequences, FiniteSets, TLC

\* ------------------------------------------------------------------------
\* Bounds
\* ------------------------------------------------------------------------
MaxTokens == 4

\* ------------------------------------------------------------------------
\* Sigils and tokens (lexer.rs Sigil / TokenKind as the bracer sees them)
\* ------------------------------------------------------------------------
OpenSigils == {"ParenOpen", "BraceOpen", "BracketOpen", "AngleOpen"}

CloseSigils == {"ParenClose", "BraceClose", "BracketClose", "AngleClose"}

\* every opener paired with the closing parenthesis
always_paren_close(s) == "ParenClose"

\* Sigil::close_sigil
close_sigil(s) ==
    CASE s = "ParenOpen" -> "ParenClose"
      [] s = "BraceOpen" -> "BraceClose"
      [] s = "BracketOpen" -> "BracketClose"
      [] s = "AngleOpen" -> "AngleClose"

\* the open sigil that the token loop hands to close_brace for a closer
open_sigil_of(c) ==
    CASE c = "ParenClose" -> "ParenOpen"
      [] c = "BraceClose" -> "BraceOpen"
      [] c = "BracketClose" -> "BracketOpen"
      [] c = "AngleClose" -> "AngleOpen"

\* Token::is_close_sigil
is_close_sigil(k) == k \in CloseSigils

\* the token kinds that matter to the bracer: every bracket sigil, and one
\* representative ("Word") of the kinds that hit the `_ => {}` arm
TokenKinds == {"Word"} \cup OpenSigils \cup CloseSigils

VARIABLES
    tokens,      \* chunk.tokens(db): the kinds of the tokens
    index,       \* position of the token loop of bracer()
    stack,       \* bracer(): Vec<(usize, Sigil, BraceMap)>
    top_map,     \* bracer(): top_map; after Bracer::new the four vectors
    pc,          \* "scan" | "unwind" | "built" | "iter" | "done" | "panic"
    mode,        \* how the tree is consumed: "deep" | "shallow" | "none"
    iters,       \* the BracerIters being drained, innermost last
    yielded,     \* every TreeToken yielded so far, in order
    rendered     \* debug_write output, one entry per written word

bracer_vars ==
    <<tokens, index, stack, top_map, pc, mode, iters, yielded, rendered>>

VARIABLES
    chunk,        \* lex_chunk(): the Chunk: text, comments, strings, errors
    position,     \* Ranges.position
    known_ranges, \* Ranges: next_known_range followed by known_ranges
    range,        \* Tokenizer.range (start = end = 0 while none runs)
    lex_tokens,   \* lex_chunk(): tokens, each a byte range and a kind
    lex_pc        \* "idle" | "ranges" | "tokenizer" | "done" | "panic"

lex_vars == <<chunk, position, known_ranges, range, lex_tokens, lex_pc>>

VARIABLES
    source,       \* source_map(): the text of the Source, a sequence of bytes
    smap,         \* source_map.rs State: position and chunk_wip
    smap_pc,      \* "idle" | "scan" | "done"
    chunk_in,     \* the Chunk source_map returns, the input of chunks()
    ranges_it,    \* chunks.rs State::map: the iterator chunk_in.ranges(db)
    cur_range,    \* chunks.rs State::map: the Unknown range being scanned
    cstate,       \* chunks.rs State: position, chunk_wip, iterators, chunks
    chunks_pc     \* "idle" | "for" | "loop" | "done" | "panic"

doc_vars ==
    <<source, smap, smap_pc, chunk_in, ranges_it, cur_range, cstate,
      chunks_pc>>

VARIABLES
    line_items,   \* lines(): the items the underlying iterator yields
    line_iter,    \* lines(): the underlying iterator, as items consumed
    lines,        \* the inner iterators produced so far, in order
    lines_pc      \* "idle" | "batching" | "done"

lines_vars == <<line_items, line_iter, lines, lines_pc>>

VARIABLES
    builder,      \* ModuleGraphBuilder: modules, module_by_id, imports,
                  \* dependencies
    builder_calls, \* the number of calls made on the builder
    graph_pc,     \* "idle" | "building" | "built"
    resolver      \* a call of resolve_package_world: its two inputs, the
                  \* module_edges built so far, its position and its result

resolve_vars == <<builder, builder_calls, graph_pc, resolver>>

vars == <<bracer_vars, lex_vars, doc_vars, lines_vars, resolve_vars>>

\* source_map.rs / chunks.rs ChunkWip, with nothing collected
NoRanges == [chunk_start |-> 0, comments |-> <<>>, strings |-> <<>>,
             errors |-> <<>>]

\* Chunk::new of an empty text
NoChunk == [text |-> <<>>, comments |-> <<>>, strings |-> <<>>,
            errors |-> <<>>]

\* chunks.rs State as chunks() constructs it: the three iterators as the
\* number of ranges each has already given
NoState ==
    [position |-> 0, chunk_wip |-> NoRanges, comments_iter |-> 0,
     strings_iter |-> 0, errors_iter |-> 0, chunks |-> <<>>]

\* ------------------------------------------------------------------------
\* BraceMap
\* ------------------------------------------------------------------------
\* BraceMap::default
EmptyMap == [branches |-> <<>>, inserted_closes |-> <<>>,
             removed_closes |-> <<>>, errors |-> <<>>]

\* mutant of append: the branches of the other map are not carried over
append_without_branches(self, other) ==
    [branches |-> self.branches,
     inserted_closes |-> self.inserted_closes \o other.inserted_closes,
     removed_closes |-> self.removed_closes \o other.removed_closes,
     errors |-> self.errors \o other.errors]

\* mutant of append: the entries of the child are put in front of those of
\* the parent
append_in_front(self, other) ==
    [branches |-> other.branches \o self.branches,
     inserted_closes |-> other.inserted_closes \o self.inserted_closes,
     removed_closes |-> other.removed_closes \o self.removed_closes,
     errors |-> other.errors \o self.errors]

\* BraceMap::append
append(self, other) ==
    [branches |-> self.branches \o other.branches,
     inserted_closes |-> self.inserted_closes \o other.inserted_closes,
     removed_closes |-> self.removed_closes \o other.removed_closes,
     errors |-> self.errors \o other.errors]

Range(s, e) == [start |-> s, end |-> e]

\* the Branch pushed for a popped frame whose map is brace_map
Branch(rng, brace_map, open_s, close_s) ==
    [real_token_range |-> rng,
     branches |-> Len(brace_map.branches),
     inserted_closes |-> Len(brace_map.inserted_closes),
     removed_closes |-> Len(brace_map.removed_closes),
     errors |-> Len(brace_map.errors),
     open_sigil |-> open_s,
     close_sigil |-> close_s]

\* stack.last_mut().map(|(_, _, brace_map)| brace_map).unwrap_or(&mut top_map)
parent_brace_map(stk, top) ==
    IF Len(stk) > 0 THEN stk[Len(stk)].brace_map ELSE top

\* writing through that reference
set_parent_brace_map(stk, top, m) ==
    IF Len(stk) > 0
    THEN [stack |-> [stk EXCEPT ![Len(stk)].brace_map = m], top_map |-> top]
    ELSE [stack |-> stk, top_map |-> m]

\* mutant of unterminated_end: the other convention, one past the closer
unterminated_end_plus_one(idx) == idx + 1

\* close_brace: where the range and the error of a popped frame that is not
\* of the closer's kind end (`open_index..index`)
unterminated_end(idx) == idx

\* mutant of pop_loop: the closer is matched with the outermost frame of its
\* kind, every frame above it being closed as unterminated
RECURSIVE pop_loop_outermost(_, _, _, _, _)
pop_loop_outermost(stk, top, idx, open_s, close_s) ==
    LET frame == stk[Len(stk)]
        rest == SubSeq(stk, 1, Len(stk) - 1)
        parent == parent_brace_map(rest, top)
    IN IF frame.open_sigil = open_s /\ ~(\E p \in 1..Len(rest) : rest[p].open_sigil = open_s)
       THEN LET b == Branch(Range(frame.open_index, idx + 1), frame.brace_map,
                            open_s, close_s)
                p1 == [parent EXCEPT !.branches = Append(@, b)]
            IN set_parent_brace_map(rest, top, append(p1, frame.brace_map))
       ELSE LET bm == [frame.brace_map EXCEPT
                         !.inserted_closes =
                             Append(@, <<idx, close_sigil(frame.open_sigil)>>),
                         !.errors =
                             Append(@, <<Range(frame.open_index, idx),
                                         frame.open_sigil>>)]
                b == Branch(Range(frame.open_index, idx), bm,
                            frame.open_sigil, close_sigil(frame.open_sigil))
                p1 == [parent EXCEPT !.branches = Append(@, b)]
                r == set_parent_brace_map(rest, top, append(p1, bm))
            IN pop_loop_outermost(r.stack, r.top_map, idx, open_s, close_s)

\* close_brace, the loop taken when seen_open holds
RECURSIVE pop_loop(_, _, _, _, _)
pop_loop(stk, top, idx, open_s, close_s) ==
    LET frame == stk[Len(stk)]
        rest == SubSeq(stk, 1, Len(stk) - 1)
        parent == parent_brace_map(rest, top)
    IN IF frame.open_sigil = open_s
       THEN LET b == Branch(Range(frame.open_index, idx + 1), frame.brace_map,
                            open_s, close_s)
                p1 == [parent EXCEPT !.branches = Append(@, b)]
            IN set_parent_brace_map(rest, top, append(p1, frame.brace_map))
       ELSE LET bm == [frame.brace_map EXCEPT
                         !.inserted_closes =
                             Append(@, <<idx, close_sigil(frame.open_sigil)>>),
                         !.errors =
                             Append(@, <<Range(frame.open_index,
                                               unterminated_end(idx)),
                                         frame.open_sigil>>)]
                b == Branch(Range(frame.open_index, unterminated_end(idx)), bm,
                            frame.open_sigil, close_sigil(frame.open_sigil))
                p1 == [parent EXCEPT !.branches = Append(@, b)]
                r == set_parent_brace_map(rest, top, append(p1, bm))
            IN pop_loop(r.stack, r.top_map, idx, open_s, close_s)

\* mutant of stray_close: the stray close is recorded at top level, whatever
\* frame is open
stray_close_at_top(stk, top, idx, close_s) ==
    [stack |-> stk,
     top_map |-> [top EXCEPT
                    !.removed_closes = Append(@, <<idx, close_s>>),
                    !.errors = Append(@, <<Range(idx, idx + 1), close_s>>)]]

\* mutant of stray_close: the stray close gets its error but is not recorded
\* in removed_closes
stray_close_error_only(stk, top, idx, close_s) ==
    LET parent == parent_brace_map(stk, top)
        p1 == [parent EXCEPT
                 !.errors = Append(@, <<Range(idx, idx + 1), close_s>>)]
    IN set_parent_brace_map(stk, top, p1)

\* close_brace, the arm taken when no frame has the opener
stray_close(stk, top, idx, close_s) ==
    LET parent == parent_brace_map(stk, top)
        p1 == [parent EXCEPT
                 !.removed_closes = Append(@, <<idx, close_s>>),
                 !.errors = Append(@, <<Range(idx, idx + 1), close_s>>)]
    IN set_parent_brace_map(stk, top, p1)

seen_open(stk, open_s) == \E p \in 1..Len(stk) : stk[p].open_sigil = open_s

\* the close_brace closure
close_brace(stk, top, idx, open_s, close_s) ==
    IF seen_open(stk, open_s)
    THEN pop_loop(stk, top, idx, open_s, close_s)
    ELSE stray_close(stk, top, idx, close_s)

\* mutant of unwind_frame: the frame open at end of input gets its error but
\* no Branch
unwind_frame_no_branch(stk, top, num_tokens) ==
    LET frame == stk[Len(stk)]
        rest == SubSeq(stk, 1, Len(stk) - 1)
        parent == parent_brace_map(rest, top)
        p1 == [parent EXCEPT
                 !.errors = Append(@, <<Range(frame.open_index, num_tokens),
                                        frame.open_sigil>>)]
    IN set_parent_brace_map(rest, top, append(p1, frame.brace_map))

\* one pass of the end-of-input `while let Some(..) = stack.pop()` loop
unwind_frame(stk, top, num_tokens) ==
    LET frame == stk[Len(stk)]
        rest == SubSeq(stk, 1, Len(stk) - 1)
        parent == parent_brace_map(rest, top)
        b == Branch(Range(frame.open_index, num_tokens), frame.brace_map,
                    frame.open_sigil, close_sigil(frame.open_sigil))
        p1 == [parent EXCEPT
                 !.branches = Append(@, b),
                 !.errors = Append(@, <<Range(frame.open_index, num_tokens),
                                        frame.open_sigil>>)]
    IN set_parent_brace_map(rest, top, append(p1, frame.brace_map))

\* ------------------------------------------------------------------------
\* BracerIter
\* ------------------------------------------------------------------------
\* Bracer::iter
iter(toks, tree) ==
    [real_token_range |-> Range(0, Len(toks)),
     branches |-> Range(0, Len(tree.branches)),
     inserted_closes |-> Range(0, Len(tree.inserted_closes)),
     removed_closes |-> Range(0, Len(tree.removed_closes)),
     next_token_index |-> 0,
     next_branch_index |-> 0,
     next_inserted_close_index |-> 0,
     next_removed_close_index |-> 0]

\* the iterator carried by a result that carries none
NoIter == iter(<<>>, EmptyMap)

\* what one call of next2 returns (or the panic that ends it); `at` is the
\* source line of the panic
Result(type, tok, sigil, it, at) ==
    [type |-> type, index |-> tok, sigil |-> sigil, iter |-> it, at |-> at]

\* indexing a Vec with a Range panics unless start <= end <= len
slice_ok(r, len) == r.start <= r.end /\ r.end <= len

\* the eight slicings at the top of the loop of next2
slices_ok(it, toks, tree) ==
    /\ slice_ok(it.real_token_range, Len(toks))
    /\ slice_ok(it.branches, Len(tree.branches))
    /\ slice_ok(it.inserted_closes, Len(tree.inserted_closes))
    /\ slice_ok(it.removed_closes, Len(tree.removed_closes))

\* vec[0..end].get(i) is Some
has(i, end) == i < end

\* mutant of skip_removed_closes_behind: no removed_close is skipped
skip_nothing(it, tree) == it

\* next2, Ordering::Equal of the branch arm: "Skip any removed_closes that
\* are now behind our position."
RECURSIVE skip_removed_closes_behind(_, _)
skip_removed_closes_behind(it, tree) ==
    IF /\ has(it.next_removed_close_index, it.removed_closes.end)
       /\ tree.removed_closes[it.next_removed_close_index + 1][1]
              < it.next_token_index
    THEN skip_removed_closes_behind(
             [it EXCEPT !.next_removed_close_index = @ + 1], tree)
    ELSE it

\* next2, Ordering::Equal of the branch arm: the nested iterator
nested_iter(it, next_branch) ==
    [real_token_range |-> Range(next_branch.real_token_range.start + 1,
                                next_branch.real_token_range.end),
     branches |-> Range(it.next_branch_index + 1,
                        it.next_branch_index + 1 + next_branch.branches),
     inserted_closes |-> Range(it.next_inserted_close_index,
                               it.next_inserted_close_index
                                   + next_branch.inserted_closes),
     removed_closes |-> Range(it.next_removed_close_index,
                              it.next_removed_close_index
                                  + next_branch.removed_closes),
     next_token_index |-> it.next_token_index + 1,
     next_branch_index |-> it.next_branch_index + 1,
     next_inserted_close_index |-> it.next_inserted_close_index,
     next_removed_close_index |-> it.next_removed_close_index]

\* next2 with the parent going on right behind the opener of the branch
after_branch_inside(it, next_branch, tree) ==
    skip_removed_closes_behind(
        [it EXCEPT
           !.next_token_index = next_branch.real_token_range.start + 1,
           !.next_branch_index = @ + 1 + next_branch.branches,
           !.next_inserted_close_index = @ + next_branch.inserted_closes,
           !.next_removed_close_index = @ + next_branch.removed_closes],
        tree)

\* next2, Ordering::Equal of the branch arm: the parent's cursors afterwards
after_branch(it, next_branch, tree) ==
    skip_removed_closes_behind(
        [it EXCEPT
           !.next_token_index = next_branch.real_token_range.end,
           !.next_branch_index = @ + 1 + next_branch.branches,
           !.next_inserted_close_index = @ + next_branch.inserted_closes,
           !.next_removed_close_index = @ + next_branch.removed_closes],
        tree)

\* BracerIter::next2: the pair of the iterator afterwards and the result
RECURSIVE next2(_, _, _)
next2(it, toks, tree) ==
    IF ~slices_ok(it, toks, tree)
    THEN [it |-> it, res |-> Result("Panic", 0, "Word", NoIter, 113)]
    ELSE
    LET t == it.next_token_index
        has_token == has(t, it.real_token_range.end)
        has_branch == has(it.next_branch_index, it.branches.end)
        has_inserted == has(it.next_inserted_close_index,
                            it.inserted_closes.end)
        has_removed == has(it.next_removed_close_index,
                           it.removed_closes.end)
        next_branch == tree.branches[it.next_branch_index + 1]
        next_inserted_close ==
            tree.inserted_closes[it.next_inserted_close_index + 1]
        next_removed_close ==
            tree.removed_closes[it.next_removed_close_index + 1]
        advanced == [it EXCEPT !.next_token_index = @ + 1]
        token == Result("Token", t, toks[t + 1], NoIter, 0)
        panic(line) == [it |-> it,
                        res |-> Result("Panic", 0, "Word", NoIter, line)]
    IN CASE has_token /\ ~has_branch /\ ~has_removed ->
              IF ~is_close_sigil(toks[t + 1])
              THEN [it |-> advanced, res |-> token]
              ELSE next2(advanced, toks, tree)
         [] has_token /\ ~has_branch /\ has_removed ->
              IF t < next_removed_close[1]
              THEN IF ~is_close_sigil(toks[t + 1])
                   THEN [it |-> advanced, res |-> token]
                   ELSE panic(156)
              ELSE IF t = next_removed_close[1]
              THEN next2([advanced EXCEPT !.next_removed_close_index = @ + 1],
                         toks, tree)
              ELSE panic(164)
         [] has_token /\ has_branch ->
              IF t < next_branch.real_token_range.start
              THEN [it |-> advanced, res |-> token]
              ELSE IF t = next_branch.real_token_range.start
              THEN [it |-> after_branch(it, next_branch, tree),
                    res |-> Result("Branch", t, next_branch.open_sigil,
                                   nested_iter(it, next_branch), 0)]
              ELSE panic(222)
         [] ~has_token /\ has_branch -> panic(226)
         [] ~has_token /\ ~has_branch /\ has_inserted ->
              IF next_inserted_close[1] = t
              THEN next2([it EXCEPT !.next_inserted_close_index = @ + 1],
                         toks, tree)
              ELSE panic(229)
         [] ~has_token /\ ~has_branch /\ ~has_inserted /\ has_removed ->
              panic(233)
         [] ~has_token /\ ~has_branch /\ ~has_inserted /\ ~has_removed ->
              [it |-> it, res |-> Result("None", 0, "Word", NoIter, 0)]

\* ------------------------------------------------------------------------
\* The bracer and a consumer of its tree as a state machine
\* ------------------------------------------------------------------------
Inputs == UNION {[1..n -> TokenKinds] : n \in 0..MaxTokens}

\* no chunk is being tokenized
LexIdle ==
    /\ chunk = [text |-> <<>>, comments |-> <<>>, strings |-> <<>>,
                errors |-> <<>>]
    /\ position = 0
    /\ known_ranges = <<>>
    /\ range = [start |-> 0, end |-> 0]
    /\ lex_tokens = <<>>
    /\ lex_pc = "idle"

\* source_map and chunks are not called
DocIdle ==
    /\ source = <<>>
    /\ smap = [position |-> 0, chunk_wip |-> NoRanges]
    /\ smap_pc = "idle"
    /\ chunk_in = NoChunk
    /\ ranges_it = [position |-> 0, known_ranges |-> <<>>]
    /\ cur_range = [start |-> 0, end |-> 0]
    /\ cstate = NoState
    /\ chunks_pc = "idle"

\* ModuleGraphBuilder::new
NewBuilder ==
    [modules |-> <<>>, module_by_id |-> {}, imports |-> <<>>,
     dependencies |-> <<>>]

\* resolve_package_world is not called
ResolverIdle ==
    resolver = [world |-> {}, demands |-> <<>>, module_edges |-> <<>>,
                pc |-> "idle", result |-> [tag |-> "none", graph |-> <<>>]]

\* no module graph is being built
GraphIdle ==
    /\ builder = NewBuilder
    /\ builder_calls = 0
    /\ graph_pc = "idle"

\* lines is not called
LinesIdle ==
    /\ line_items = <<>>
    /\ line_iter = 0
    /\ lines = <<>>
    /\ lines_pc = "idle"

Init ==
    /\ LexIdle
    /\ DocIdle
    /\ LinesIdle
    /\ GraphIdle
    /\ ResolverIdle
    /\ tokens \in Inputs
    /\ index = 0
    /\ stack = <<>>
    /\ top_map = EmptyMap
    /\ pc = "scan"
    /\ mode = "none"
    /\ iters = <<>>
    /\ yielded = <<>>
    /\ rendered = <<>>

consumer_unchanged ==
    UNCHANGED <<mode, iters, yielded, rendered, lex_vars, doc_vars,
                lines_vars,
                   resolve_vars>>

\* bracer(), token loop: an open sigil pushes a fresh frame
PushOpen ==
    /\ pc = "scan" /\ index < Len(tokens)
    /\ tokens[index + 1] \in OpenSigils
    /\ stack' = Append(stack, [open_index |-> index,
                               open_sigil |-> tokens[index + 1],
                               brace_map |-> EmptyMap])
    /\ index' = index + 1
    /\ UNCHANGED <<tokens, top_map, pc>>
    /\ consumer_unchanged

\* bracer(), token loop: a close sigil calls close_brace
CloseBrace ==
    /\ pc = "scan" /\ index < Len(tokens)
    /\ tokens[index + 1] \in CloseSigils
    /\ LET r == close_brace(stack, top_map, index,
                            open_sigil_of(tokens[index + 1]),
                            tokens[index + 1])
       IN stack' = r.stack /\ top_map' = r.top_map
    /\ index' = index + 1
    /\ UNCHANGED <<tokens, pc>>
    /\ consumer_unchanged

\* bracer(), token loop: `_ => {}`
OtherToken ==
    /\ pc = "scan" /\ index < Len(tokens)
    /\ tokens[index + 1] \notin OpenSigils \cup CloseSigils
    /\ index' = index + 1
    /\ UNCHANGED <<tokens, stack, top_map, pc>>
    /\ consumer_unchanged

\* bracer(): the token loop is over
EndOfTokens ==
    /\ pc = "scan" /\ index = Len(tokens)
    /\ pc' = "unwind"
    /\ UNCHANGED <<tokens, index, stack, top_map>>
    /\ consumer_unchanged

\* bracer(), end of input: one pass of the loop that pops the stack
Unwind ==
    /\ pc = "unwind" /\ Len(stack) > 0
    /\ LET r == unwind_frame(stack, top_map, Len(tokens))
       IN stack' = r.stack /\ top_map' = r.top_map
    /\ UNCHANGED <<tokens, index, pc>>
    /\ consumer_unchanged

\* bracer(): Bracer::new on the four vectors of top_map
BracerNew ==
    /\ pc = "unwind" /\ Len(stack) = 0
    /\ pc' = "built"
    /\ UNCHANGED <<tokens, index, stack, top_map>>
    /\ consumer_unchanged

\* Bracer::iter, by a consumer that drains the top-level iterator only
\* ("shallow", as `bracer.iter(db).collect()`) or that enters every Branch
\* where it is yielded ("deep", as debug_write)
IterStart ==
    /\ pc = "built"
    /\ mode' \in {"deep", "shallow"}
    /\ iters' = <<iter(tokens, top_map)>>
    /\ pc' = "iter"
    /\ UNCHANGED <<tokens, index, stack, top_map, yielded, rendered, lex_vars, doc_vars,
                   lines_vars,
                   resolve_vars>>

\* the open sigil of the branch whose nested iterator is `it`
branch_sigil(it) == tokens[it.real_token_range.start]

\* BracerIter::next on the innermost iterator being drained; debug_write
\* writes the token, or the open sigil before and the close sigil after the
\* nested tokens
IterNext ==
    /\ pc = "iter" /\ Len(iters) > 0
    /\ LET d == Len(iters)
           r == next2(iters[d], tokens, top_map)
       IN CASE r.res.type = "Token" ->
                 /\ iters' = [iters EXCEPT ![d] = r.it]
                 /\ yielded' = Append(yielded, r.res)
                 /\ rendered' = IF mode = "deep"
                                THEN Append(rendered, r.res.sigil)
                                ELSE rendered
                 /\ pc' = pc
            [] r.res.type = "Branch" ->
                 /\ iters' = IF mode = "deep"
                             THEN Append([iters EXCEPT ![d] = r.it],
                                         r.res.iter)
                             ELSE [iters EXCEPT ![d] = r.it]
                 /\ yielded' = Append(yielded, r.res)
                 /\ rendered' = IF mode = "deep"
                                THEN Append(rendered, r.res.sigil)
                                ELSE rendered
                 /\ pc' = pc
            [] r.res.type = "None" ->
                 /\ iters' = SubSeq(iters, 1, d - 1)
                 /\ yielded' = yielded
                 /\ rendered' = IF d > 1
                                THEN Append(rendered,
                                            close_sigil(branch_sigil(iters[d])))
                                ELSE rendered
                 /\ pc' = IF d = 1 THEN "done" ELSE pc
            [] r.res.type = "Panic" ->
                 /\ iters' = iters
                 /\ yielded' = Append(yielded, r.res)
                 /\ rendered' = rendered
                 /\ pc' = "panic"
    /\ UNCHANGED <<tokens, index, stack, top_map, mode, lex_vars, doc_vars,
                   lines_vars,
                   resolve_vars>>

Next ==
    \/ PushOpen
    \/ CloseBrace
    \/ OtherToken
    \/ EndOfTokens
    \/ Unwind
    \/ BracerNew
    \/ IterStart
    \/ IterNext

Spec == Init /\ [][Next]_vars

\* ------------------------------------------------------------------------
\* The tokenizer (crates/bct/src/lexer.rs, crates/bct/src/chunk.rs)
\* ------------------------------------------------------------------------
\* Bounds
MaxItems == 4

\* the characters of the texts: a whitespace, a word character, the start
\* of a one-character sigil, the start of `:-`, and a character that starts
\* no token (`-`, as `#`); all of one byte
Chars == {" ", "a", "(", ":", "-"}

\* the filler of the pre-classified ranges, whose text lex_chunk never reads
Filler == "\""

\* char::is_whitespace
is_whitespace(ch) == ch = " "

\* Tokenizer::is_word_start
is_word_start(ch) == ch = "a"

\* enum Sigil in declaration order (enum_iterator::all) with Sigil::as_str
AllSigils ==
    << [sigil |-> "Dot", str |-> <<".">>],
       [sigil |-> "Comma", str |-> <<",">>],
       [sigil |-> "Semicolon", str |-> <<";">>],
       [sigil |-> "ColonDash", str |-> <<":", "-">>],
       [sigil |-> "ParenOpen", str |-> <<"(">>],
       [sigil |-> "ParenClose", str |-> <<")">>],
       [sigil |-> "BraceOpen", str |-> <<"{">>],
       [sigil |-> "BraceClose", str |-> <<"}">>] >>

\* Tokenizer::is_sigil_start, over Sigil::start_char
is_sigil_start(ch) == \E i \in 1..Len(AllSigils) : AllSigils[i].str[1] = ch

\* Tokenizer::token_start
token_start(ch) ==
    IF is_whitespace(ch) THEN "Whitespace"
    ELSE IF is_word_start(ch) THEN "Word"
    ELSE IF is_sigil_start(ch) THEN "Sigil"
    ELSE "Error"

\* the bytes of text in the byte range rng
Slice(text, rng) == SubSeq(text, rng.start + 1, rng.end)

\* str::starts_with
starts_with(text, prefix) ==
    Len(prefix) <= Len(text) /\ SubSeq(text, 1, Len(prefix)) = prefix

\* Tokenizer::peek is Some
has_peek(rng) == rng.start < rng.end

\* Tokenizer::peek, when it is Some
peek(text, rng) == text[rng.start + 1]

\* Tokenizer::peek_token
peek_token(text, rng) ==
    IF has_peek(rng) THEN token_start(peek(text, rng)) ELSE "None"

\* a token: SubText range and TokenKind (the sigil of a Sigil token in
\* `sigil`, "" otherwise)
Token(rng, kind, sigil) == [range |-> rng, kind |-> kind, sigil |-> sigil]

\* what an eat_* method returns: the tokenizer's range afterwards and the
\* token, or the source line of the panic that ends it
Eaten(rng, token) == [range |-> rng, token |-> token, panic |-> 0]

EatPanic(rng, line) ==
    [range |-> rng, token |-> Token(rng, "Error", ""), panic |-> line]

\* the loop of eat_whitespace: the range behind the whitespace run
RECURSIVE whitespace_run(_, _)
whitespace_run(text, rng) ==
    IF has_peek(rng) /\ is_whitespace(peek(text, rng))
    THEN whitespace_run(text, [rng EXCEPT !.start = @ + 1])
    ELSE rng

\* the loop of eat_word: the range behind the run of word characters
RECURSIVE word_run(_, _)
word_run(text, rng) ==
    IF has_peek(rng) /\ is_word_start(peek(text, rng))
    THEN word_run(text, [rng EXCEPT !.start = @ + 1])
    ELSE rng

\* Tokenizer::eat_whitespace
eat_whitespace(text, rng) ==
    LET r == whitespace_run(text, rng)
    IN IF rng.start < r.start
       THEN Eaten(r, Token(Range(rng.start, r.start), "Whitespace", ""))
       ELSE EatPanic(r, 240)

\* Tokenizer::eat_word
eat_word(text, rng) ==
    LET r == word_run(text, rng)
    IN IF rng.start < r.start
       THEN Eaten(r, Token(Range(rng.start, r.start), "Word", ""))
       ELSE EatPanic(r, 157)

\* eat_error_from: `recover`, by the class of the first and of the next
\* character ("unreachable" for the two unreachable!() arms)
recover(first, next) ==
    IF first \in {"Whitespace", "Word"} THEN "unreachable"
    ELSE IF next = "Error" THEN "no"
    ELSE "yes"

\* eat_error_from: the loop; the range afterwards, with start = -1 when it
\* ran into unreachable!()
RECURSIVE error_run(_, _, _)
error_run(text, rng, first) ==
    IF ~has_peek(rng) THEN rng
    ELSE LET rv == recover(first, token_start(peek(text, rng)))
         IN CASE rv = "unreachable" -> [rng EXCEPT !.start = -1]
              [] rv = "no" -> error_run(text, [rng EXCEPT !.start = @ + 1], first)
              [] rv = "yes" -> rng

\* Tokenizer::eat_error_from
eat_error_from(text, rng, start_ch) ==
    IF peek_token(text, rng) # "Whitespace" THEN EatPanic(rng, 197)
    ELSE IF rng.start = 0 THEN EatPanic(rng, 200)
    ELSE LET start == rng.start - 1
             r == error_run(text, rng, token_start(start_ch))
         IN IF r.start = -1 THEN EatPanic(rng, 204)
            ELSE IF start < r.start
            THEN Eaten(r, Token(Range(start, r.start), "Error", ""))
            ELSE EatPanic(r, 221)

\* Tokenizer::eat_error
eat_error(text, rng) == eat_error_from(text, rng, peek(text, rng))

\* Tokenizer::eat_sigil: the first sigil, from the i-th on, whose lexeme
\* the rest of the range starts with
RECURSIVE eat_sigil_from(_, _, _)
eat_sigil_from(text, rng, i) ==
    IF i > Len(AllSigils) THEN eat_error_from(text, rng, peek(text, rng))
    ELSE IF starts_with(Slice(text, rng), AllSigils[i].str)
    THEN LET r == [rng EXCEPT !.start = @ + Len(AllSigils[i].str)]
         IN Eaten(r, Token(Range(rng.start, r.start), "Sigil",
                           AllSigils[i].sigil))
    ELSE eat_sigil_from(text, rng, i + 1)

\* eat_sigil taking the start character alone as the token
eat_sigil_one_byte(text, rng) ==
    LET i == CHOOSE j \in 1..Len(AllSigils) :
                 AllSigils[j].str[1] = peek(text, rng)
    IN Eaten([rng EXCEPT !.start = @ + 1],
             Token(Range(rng.start, rng.start + 1), "Sigil",
                   AllSigils[i].sigil))

\* Tokenizer::eat_sigil
eat_sigil(text, rng) == eat_sigil_from(text, rng, 1)

\* itertools merge_by(.., |x, y| x.0.start <= y.0.start)
RECURSIVE merge_by(_, _)
merge_by(xs, ys) ==
    IF Len(xs) = 0 THEN ys
    ELSE IF Len(ys) = 0 THEN xs
    ELSE IF xs[1].range.start <= ys[1].range.start
    THEN <<xs[1]>> \o merge_by(Tail(xs), ys)
    ELSE <<ys[1]>> \o merge_by(xs, Tail(ys))

Tagged(ranges, kind) ==
    [i \in 1..Len(ranges) |-> [range |-> ranges[i], kind |-> kind]]

\* Chunk::ranges: known_ranges, the first of them being next_known_range
merged_known_ranges(c) ==
    merge_by(merge_by(Tagged(c.comments, "Comment"),
                      Tagged(c.strings, "String")),
             Tagged(c.errors, "Error"))

\* the chunks: a text laid out as a row of items, each one character of
\* unclassified text or a pre-classified range of two bytes
Items == Chars \cup {"Comment", "String", "Error"}

Layouts == UNION {[1..n -> Items] : n \in 0..MaxItems}

ItemText(item) == IF item \in Chars THEN <<item>> ELSE <<Filler, Filler>>

RECURSIVE LayoutText(_)
LayoutText(l) ==
    IF Len(l) = 0 THEN <<>> ELSE ItemText(l[1]) \o LayoutText(Tail(l))

RECURSIVE LayoutRanges(_, _, _)
LayoutRanges(l, kind, at) ==
    IF Len(l) = 0 THEN <<>>
    ELSE (IF l[1] = kind THEN <<Range(at, at + 2)>> ELSE <<>>)
           \o LayoutRanges(Tail(l), kind, at + Len(ItemText(l[1])))

\* Chunk::new
Chunk(l) ==
    [text |-> LayoutText(l),
     comments |-> LayoutRanges(l, "Comment", 0),
     strings |-> LayoutRanges(l, "String", 0),
     errors |-> LayoutRanges(l, "Error", 0)]

\* no tree is being built
BracerIdle ==
    /\ tokens = <<>>
    /\ index = 0
    /\ stack = <<>>
    /\ top_map = EmptyMap
    /\ pc = "idle"
    /\ mode = "none"
    /\ iters = <<>>
    /\ yielded = <<>>
    /\ rendered = <<>>

\* lex_chunk is called on a chunk
LexInit ==
    /\ BracerIdle
    /\ DocIdle
    /\ LinesIdle
    /\ GraphIdle
    /\ ResolverIdle
    /\ \E l \in Layouts : chunk = Chunk(l)
    /\ position = 0
    /\ known_ranges = merged_known_ranges(chunk)
    /\ range = [start |-> 0, end |-> 0]
    /\ lex_tokens = <<>>
    /\ lex_pc = "ranges"

\* Ranges::next gives an Unknown range: lex_chunk starts a Tokenizer on it
RangesUnknown ==
    /\ lex_pc = "ranges"
    /\ \/ /\ Len(known_ranges) = 0
          /\ position < Len(chunk.text)
          /\ range' = Range(position, Len(chunk.text))
       \/ /\ Len(known_ranges) > 0
          /\ position < known_ranges[1].range.start
          /\ range' = Range(position, known_ranges[1].range.start)
    /\ position' = range'.end
    /\ lex_pc' = "tokenizer"
    /\ UNCHANGED <<chunk, known_ranges, lex_tokens, bracer_vars, doc_vars,
                   lines_vars,
                   resolve_vars>>

\* Ranges::next gives the next known range: lex_chunk pushes one token of
\* its kind (the ranges of a chunk are sorted and disjoint, so the position
\* is never behind the start of the next one: Ordering::Greater)
RangesKnown ==
    /\ lex_pc = "ranges"
    /\ Len(known_ranges) > 0
    /\ position = known_ranges[1].range.start
    /\ position' = known_ranges[1].range.end
    /\ known_ranges' = Tail(known_ranges)
    /\ lex_tokens' = Append(lex_tokens,
                            Token(known_ranges[1].range,
                                  known_ranges[1].kind, ""))
    /\ UNCHANGED <<chunk, range, lex_pc, bracer_vars, doc_vars, lines_vars,
                   resolve_vars>>

\* Ranges::next gives None: lex_chunk returns ChunkLex::new(tokens)
RangesNone ==
    /\ lex_pc = "ranges"
    /\ Len(known_ranges) = 0
    /\ position >= Len(chunk.text)
    /\ lex_pc' = "done"
    /\ UNCHANGED <<chunk, position, known_ranges, range, lex_tokens,
                   bracer_vars, doc_vars, lines_vars,
                   resolve_vars>>

\* Tokenizer::next, by what peek_token gives
TokenizerNext ==
    /\ lex_pc = "tokenizer"
    /\ LET k == peek_token(chunk.text, range)
           e == CASE k = "Whitespace" -> eat_whitespace(chunk.text, range)
                  [] k = "Word" -> eat_word(chunk.text, range)
                  [] k = "Sigil" -> eat_sigil(chunk.text, range)
                  [] k = "Error" -> eat_error(chunk.text, range)
                  [] k = "None" -> Eaten(range, Token(range, "None", ""))
       IN IF k = "None"
          THEN /\ lex_pc' = "ranges"
               /\ UNCHANGED <<range, lex_tokens>>
          ELSE IF e.panic # 0
          THEN /\ lex_pc' = "panic"
               /\ UNCHANGED <<range, lex_tokens>>
          ELSE /\ range' = e.range
               /\ lex_tokens' = Append(lex_tokens, e.token)
               /\ lex_pc' = lex_pc
    /\ UNCHANGED <<chunk, position, known_ranges, bracer_vars, doc_vars,
                   lines_vars,
                   resolve_vars>>

LexNext ==
    \/ RangesUnknown
    \/ RangesKnown
    \/ RangesNone
    \/ TokenizerNext

LexSpec == LexInit /\ [][LexNext]_vars

\* ------------------------------------------------------------------------
\* Claims
\* ------------------------------------------------------------------------
\* the tree is complete once Bracer::new has run
Built == pc \in {"built", "iter", "done", "panic"}

\* C1: running bracer() and then traversing the result completely, every
\* nested iterator entered, never reaches a bug!(), panic! or failed
\* assert_eq! of next2.
C1_DeepTraversalNeverPanics == mode = "deep" => pc # "panic"

C3_NoCloseSigilYielded ==
    \A y \in 1..Len(yielded) :
        yielded[y].type = "Token" => ~is_close_sigil(tokens[yielded[y].index + 1])

\* ---- helpers for the claims about bracer() ------------------------------
\* the token loop is about to hand the close sigil at `index` to close_brace
AtClose == pc = "scan" /\ index < Len(tokens) /\ tokens[index + 1] \in CloseSigils

\* ... and some frame has its opener / no frame has it
AtMatchedClose == AtClose /\ seen_open(stack, open_sigil_of(tokens[index + 1]))

AtStrayClose == AtClose /\ ~seen_open(stack, open_sigil_of(tokens[index + 1]))

\* the entries of sequence s2 behind its prefix s1
NewEntries(s1, s2) == SubSeq(s2, Len(s1) + 1, Len(s2))

IsPrefix(s1, s2) == Len(s1) <= Len(s2) /\ SubSeq(s2, 1, Len(s1)) = s1

\* how often entry e occurs in sequence s
Count(s, e) == Cardinality({q \in 1..Len(s) : s[q] = e})

\* the stray close token of a removed_close is never yielded as a Token
NoRemovedCloseYielded ==
    \A y \in 1..Len(yielded) :
        yielded[y].type = "Token" =>
            \A q \in 1..Len(top_map.removed_closes) :
                top_map.removed_closes[q][1] # yielded[y].index

\* C4: a close sigil k at index i with no opener of kind k on the stack
\* records exactly one removed_close (i, k) and one error ([i, i+1), k) in
\* the map of the innermost open frame (the top level when the stack is
\* empty), changes nothing else, and the token never shows in the tree.
C4_StrayCloseRemoved ==
    [][/\ (AtStrayClose /\ index' = index + 1) =>
            LET k == tokens[index + 1]
                par == parent_brace_map(stack, top_map)
                par2 == parent_brace_map(stack', top_map')
                n == Len(stack)
            IN /\ par2.removed_closes = Append(par.removed_closes, <<index, k>>)
               /\ par2.errors = Append(par.errors, <<Range(index, index + 1), k>>)
               /\ par2.branches = par.branches
               /\ par2.inserted_closes = par.inserted_closes
               /\ Len(stack') = n
               /\ \A p \in 1..n :
                      /\ stack'[p].open_index = stack[p].open_index
                      /\ stack'[p].open_sigil = stack[p].open_sigil
                      /\ p < n => stack'[p] = stack[p]
               /\ n > 0 => top_map' = top_map
       /\ NoRemovedCloseYielded'
      ]_vars

\* the frame that a close of open_s matches: the topmost frame of that kind
MatchPos(stk, open_s) ==
    CHOOSE p \in 1..Len(stk) :
        /\ stk[p].open_sigil = open_s
        /\ \A q \in (p + 1)..Len(stk) : stk[q].open_sigil # open_s

\* C5: at a close sigil of kind k at index c with an opener of kind k on the
\* stack, frames are popped from the top down to the first frame of kind k;
\* each popped frame yields exactly one Branch, [open_index, c) with one
\* inserted_close (c, its own closer) and one error ([open_index, c), its
\* opener) when it is not of kind k, and [open_index, c+1) with no inserted
\* close and no error of its own for the frame of kind k.
C5_PopUntilMatch ==
    [][(AtMatchedClose /\ index' = index + 1) =>
         LET c == index
             n == Len(stack)
             j == MatchPos(stack, open_sigil_of(tokens[c + 1]))
             par == parent_brace_map(SubSeq(stack, 1, j - 1), top_map)
             par2 == parent_brace_map(stack', top_map')
             newB == NewEntries(par.branches, par2.branches)
             newIC == NewEntries(par.inserted_closes, par2.inserted_closes)
             newE == NewEntries(par.errors, par2.errors)
             of(p) == {q \in 1..Len(newB) :
                         newB[q].real_token_range.start = stack[p].open_index}
         IN /\ Len(stack') = j - 1
            /\ IsPrefix(par.branches, par2.branches)
            /\ IsPrefix(par.inserted_closes, par2.inserted_closes)
            /\ IsPrefix(par.errors, par2.errors)
            /\ \A p \in j..n :
                 /\ Cardinality(of(p)) = 1
                 /\ \A q \in of(p) :
                      /\ newB[q].real_token_range.end = IF p = j THEN c + 1 ELSE c
                      /\ newB[q].open_sigil = stack[p].open_sigil
                      /\ newB[q].close_sigil = close_sigil(stack[p].open_sigil)
            /\ \A p \in (j + 1)..n :
                 /\ Count(newE, <<Range(stack[p].open_index, c),
                                  stack[p].open_sigil>>) = 1
                 /\ Count(newIC, <<c, close_sigil(stack[p].open_sigil)>>)
                      = Cardinality({p2 \in (j + 1)..n :
                                       stack[p2].open_sigil = stack[p].open_sigil})
            /\ Cardinality({q \in 1..Len(newIC) : newIC[q][1] = c}) = n - j
            /\ \A q \in 1..Len(newE) :
                 newE[q][1].start # stack[j].open_index
      ]_vars

\* C5 witness: the close sigil just consumed popped an unterminated frame
\* and then the frame it matches: a branch ending at the closer lies inside
\* a branch ending behind it.
C5_Witness ==
    /\ pc = "scan" /\ index > 0 /\ tokens[index] \in CloseSigils
    /\ LET bs == parent_brace_map(stack, top_map).branches
       IN \E a, b \in 1..Len(bs) :
            /\ bs[a].real_token_range.end = index
            /\ bs[b].real_token_range.end = index - 1
            /\ bs[a].real_token_range.start < bs[b].real_token_range.start
            /\ bs[b].inserted_closes > 0

\* the sum of the lengths of a vector over every map still being built
RECURSIVE StackTotal(_, _)
StackTotal(stk, field) ==
    IF Len(stk) = 0 THEN 0
    ELSE Len(stk[Len(stk)].brace_map[field])
           + StackTotal(SubSeq(stk, 1, Len(stk) - 1), field)

Total(stk, top, field) == Len(top[field]) + StackTotal(stk, field)

\* C6: at end of input every opener still on the stack becomes a Branch
\* [open_index, num_tokens), and for each both an inserted close of its
\* closing kind and an error over [open_index, num_tokens) are recorded;
\* so n openers alone give n inserted_closes and n errors.
C6_UnwindInsertsCloses ==
    [][/\ (pc = "unwind" /\ Len(stack) > 0 /\ Len(stack') < Len(stack)) =>
            LET f == stack[Len(stack)]
                n == Len(tokens)
                par2 == parent_brace_map(stack', top_map')
            IN /\ \E q \in 1..Len(par2.branches) :
                     /\ par2.branches[q].real_token_range
                          = Range(f.open_index, n)
                     /\ par2.branches[q].open_sigil = f.open_sigil
               /\ Count(par2.errors, <<Range(f.open_index, n), f.open_sigil>>) = 1
               /\ Total(stack', top_map', "errors")
                    = Total(stack, top_map, "errors") + 1
               /\ Count(par2.inserted_closes, <<n, close_sigil(f.open_sigil)>>) >= 1
               /\ Total(stack', top_map', "inserted_closes")
                    = Total(stack, top_map, "inserted_closes") + 1
       /\ (Built /\ \A i \in 1..Len(tokens) : tokens[i] \in OpenSigils)' =>
            /\ Len(top_map'.inserted_closes) = Len(tokens)
            /\ Len(top_map'.errors) = Len(tokens)
      ]_vars

\* ---- helpers for the claims about the finished tree ---------------------
BranchIds == 1..Len(top_map.branches)

RangeOf(i) == top_map.branches[i].real_token_range

\* range r1 lies inside range r2
Inside(r1, r2) == r2.start <= r1.start /\ r1.end <= r2.end

\* the branches whose token range lies inside that of branch i
Descendants(i) == {j \in BranchIds : j # i /\ Inside(RangeOf(j), RangeOf(i))}

\* the branches not contained in any other branch
TopLevel == {i \in BranchIds : \A j \in BranchIds : i \notin Descendants(j)}

Contiguous(S) == \A a, b \in S : \A m \in a..b : m \in S

\* branch i was closed by its own closer: the token before its end is its
\* close sigil and no branch inside it ends at the same place
Matched(i) ==
    /\ tokens[RangeOf(i).end] = top_map.branches[i].close_sigil
    /\ \A j \in Descendants(i) : RangeOf(j).end # RangeOf(i).end

\* branch i was closed by the closer of an enclosing branch
ClosedByOther(i) == ~Matched(i) /\ RangeOf(i).end < Len(tokens)

\* branch i was still open at end of input
Unclosed(i) == ~Matched(i) /\ RangeOf(i).end = Len(tokens)

\* the positions in removed_closes / errors of the entries that lie inside
\* branch i
RemovedIn(i) ==
    {q \in 1..Len(top_map.removed_closes) :
       /\ RangeOf(i).start < top_map.removed_closes[q][1]
       /\ top_map.removed_closes[q][1] < RangeOf(i).end}

ErrorsIn(i) ==
    {q \in 1..Len(top_map.errors) : Inside(top_map.errors[q][1], RangeOf(i))}

\* the pre-order convention for the branches vector
BranchesPreOrder ==
    \A i \in BranchIds :
        Descendants(i) = (i + 1)..(i + top_map.branches[i].branches)

\* ... for removed_closes
RemovedPreOrder ==
    \A i \in BranchIds :
        /\ Contiguous(RemovedIn(i))
        /\ Cardinality(RemovedIn(i)) = top_map.branches[i].removed_closes
        /\ \A j \in BranchIds :
             RangeOf(i).end <= RangeOf(j).start =>
                 \A a \in RemovedIn(i), b \in RemovedIn(j) : a < b

\* ... for inserted_closes: one for each branch of the subtree that the
\* closer of an enclosing branch closed, each at the end of its branch
InsertedPreOrder ==
    /\ \A i \in BranchIds :
         top_map.branches[i].inserted_closes
           = Cardinality({j \in Descendants(i) \cup {i} : ClosedByOther(j)})
    /\ \A s \in CloseSigils : \A p \in 0..Len(tokens) :
         Count(top_map.inserted_closes, <<p, s>>)
           = Cardinality({j \in BranchIds :
                            /\ ClosedByOther(j)
                            /\ RangeOf(j).end = p
                            /\ top_map.branches[j].close_sigil = s})

\* ... for errors
ErrorsPreOrder ==
    \A i \in BranchIds :
        /\ Contiguous(ErrorsIn(i))
        /\ Cardinality(ErrorsIn(i)) = top_map.branches[i].errors
        /\ \A j \in BranchIds :
             RangeOf(i).end <= RangeOf(j).start =>
                 \A a \in ErrorsIn(i), b \in ErrorsIn(j) : a < b

\* C7: the flat vectors are in pre-order with consistent subtree counts:
\* the b entries after branch i are exactly its descendants, and the
\* entries of the other three vectors that belong to its subtree form one
\* contiguous slice of the counted length, in sibling order.
C7_PreOrderCounts ==
    Built => /\ BranchesPreOrder
             /\ InsertedPreOrder
             /\ RemovedPreOrder
             /\ ErrorsPreOrder

RECURSIVE SumOver(_, _)
SumOver(S, field) ==
    IF S = {} THEN 0
    ELSE LET i == CHOOSE x \in S : TRUE
         IN top_map.branches[i][field] + SumOver(S \ {i}, field)

\* C8: summing branches[i].branches + 1 over the top-level branches gives
\* len(branches).
C8_BranchCountsSum ==
    Built => SumOver(TopLevel, "branches") + Cardinality(TopLevel)
               = Len(top_map.branches)

\* C8 witness: a finished tree with two top-level branches, one of them
\* with a branch inside.
C8_Witness ==
    /\ Built
    /\ Cardinality(TopLevel) >= 2
    /\ \E i \in TopLevel : top_map.branches[i].branches > 0

StrayAtTopLevel ==
    {q \in 1..Len(top_map.removed_closes) :
       \A i \in BranchIds : q \notin RemovedIn(i)}

RECURSIVE reconstruct_text(_, _)
reconstruct_text(text, toks) ==
    IF Len(toks) = 0 THEN <<>>
    ELSE Slice(text, toks[1].range) \o reconstruct_text(text, Tail(toks))

\* the token ranges are non-empty, ordered and contiguous, from byte 0 to
\* the length of the text
PartitionsText(text, toks) ==
    /\ \A i \in 1..Len(toks) : toks[i].range.start < toks[i].range.end
    /\ \A i \in 1..(Len(toks) - 1) : toks[i].range.end = toks[i + 1].range.start
    /\ Len(toks) > 0 => toks[1].range.start = 0
    /\ Len(toks) > 0 => toks[Len(toks)].range.end = Len(text)
    /\ Len(toks) = 0 => Len(text) = 0

\* C10: for every chunk lex_chunk returns tokens that are non-empty,
\* ordered and contiguous from byte 0 to the chunk length, so that the
\* token texts concatenate to the chunk text.
C10_TokensPartitionChunk ==
    /\ lex_pc # "panic"
    /\ lex_pc = "done" =>
         /\ PartitionsText(chunk.text, lex_tokens)
         /\ reconstruct_text(chunk.text, lex_tokens) = chunk.text

\* the tokenizer stands at a character that is neither whitespace, nor a
\* word character, nor the beginning of a complete sigil lexeme
AtErrorChar ==
    /\ lex_pc = "tokenizer"
    /\ has_peek(range)
    /\ \/ token_start(peek(chunk.text, range)) = "Error"
       \/ /\ token_start(peek(chunk.text, range)) = "Sigil"
          /\ \A i \in 1..Len(AllSigils) :
               ~starts_with(Slice(chunk.text, range), AllSigils[i].str)

\* the end of the error run that starts at byte p of the region: the next
\* whitespace, word or sigil-start character behind p, or the region's end
RECURSIVE ErrorEnd(_, _, _)
ErrorEnd(text, p, end) ==
    IF p >= end \/ token_start(text[p + 1]) # "Error" THEN p
    ELSE ErrorEnd(text, p + 1, end)

\* C11: when the next character of an Unknown region is neither whitespace,
\* nor a word character, nor the beginning of a complete sigil lexeme,
\* lex_chunk does not abort: it emits one Error token from that character
\* to the next whitespace, word or sigil-start character (or the region's
\* end), and the tokenizer goes on behind it.
C11_ErrorTokenEmitted ==
    [][AtErrorChar =>
         LET e == ErrorEnd(chunk.text, range.start + 1, range.end)
         IN /\ lex_pc' = "tokenizer"
            /\ lex_tokens' = Append(lex_tokens,
                                    Token(Range(range.start, e), "Error", ""))
            /\ range' = Range(e, range.end)]_vars

\* ------------------------------------------------------------------------
\* Part A: the segmenter (crates/bct/src/source_map.rs)
\* ------------------------------------------------------------------------
MaxChars == 4

MaxCommentTail == 6

\* the characters of the source texts: the start characters of
\* basic_config, the characters the parsers look for, the chunk start
\* character, a plain character, and "E" for a character of two bytes
SourceChars == {"%", "/", "*", "\"", "\n", ".", "a", "E"}

\* the UTF-8 bytes of a character
CharBytes(c) == IF c = "E" THEN <<"E1", "E2">> ELSE <<c>>

RECURSIVE Utf8(_)
Utf8(cs) == IF Len(cs) = 0 THEN <<>> ELSE CharBytes(cs[1]) \o Utf8(Tail(cs))

\* str::is_char_boundary
is_char_boundary(text, i) ==
    i = 0 \/ i = Len(text) \/ (i < Len(text) /\ text[i + 1] # "E2")

\* the source texts: every text of up to MaxChars characters, and the
\* block comments "/*" followed by up to MaxCommentTail characters
SourceTexts ==
    {Utf8(cs) : cs \in UNION {[1..n -> SourceChars] : n \in 0..MaxChars}}
    \cup {<<"/", "*">> \o cs :
            cs \in UNION {[1..n -> {"/", "*", "a"}] : n \in 0..MaxCommentTail}}

\* basic_config: comment_start_chars, string_start_chars
comment_start_chars == {"%", "/"}

string_start_chars == {"\""}

\* Option<Result<usize, usize>>
ParseNone == [some |-> FALSE, ok |-> FALSE, bytes |-> 0]

ParseOk(n) == [some |-> TRUE, ok |-> TRUE, bytes |-> n]

ParseErr(n) == [some |-> TRUE, ok |-> FALSE, bytes |-> n]

\* a parser ran into unreachable!() or a failed unwrap
ParsePanic == [some |-> TRUE, ok |-> FALSE, bytes |-> -1]

\* text[from..]
Rest(text, from) == SubSeq(text, from + 1, Len(text))

\* str::match_indices(chars).next() and memchr: the index of the first
\* byte of text, from index i on, that is in set; -1 for None
RECURSIVE first_index(_, _, _)
first_index(text, set, i) ==
    IF i >= Len(text) THEN -1
    ELSE IF text[i + 1] \in set THEN i
    ELSE first_index(text, set, i + 1)

\* str::match_indices(pat): the starts of the non-overlapping matches of
\* pat in text, from index i on
RECURSIVE match_indices(_, _, _)
match_indices(text, pat, i) ==
    IF i + Len(pat) > Len(text) THEN <<>>
    ELSE IF SubSeq(text, i + 1, i + Len(pat)) = pat
    THEN <<i>> \o match_indices(text, pat, i + Len(pat))
    ELSE match_indices(text, pat, i + 1)

\* parse_nested_comment: opens and closes, tagged with their Kind
Braces(indexes, kind) ==
    [i \in 1..Len(indexes) |-> [index |-> indexes[i], kind |-> kind]]

\* the derived Ord of (usize, Kind), Kind::Open < Kind::Close
brace_le(x, y) ==
    \/ x.index < y.index
    \/ x.index = y.index /\ (x.kind = "Open" \/ y.kind = "Close")

\* itertools merge
RECURSIVE merge(_, _)
merge(xs, ys) ==
    IF Len(xs) = 0 THEN ys
    ELSE IF Len(ys) = 0 THEN xs
    ELSE IF brace_le(xs[1], ys[1]) THEN <<xs[1]>> \o merge(Tail(xs), ys)
    ELSE <<ys[1]>> \o merge(xs, Tail(ys))

\* the scan of parse_nested_comment keeping every brace
keep_overlaps(braces, prev_index) == braces

\* parse_nested_comment: the scan that drops a brace starting one byte
\* after the last brace kept; prev_index is -1 for None
RECURSIVE without_overlaps(_, _)
without_overlaps(braces, prev_index) ==
    IF Len(braces) = 0 THEN <<>>
    ELSE IF prev_index # -1 /\ prev_index = braces[1].index - 1
    THEN without_overlaps(Tail(braces), prev_index)
    ELSE <<braces[1]>> \o without_overlaps(Tail(braces), braces[1].index)

\* parse_nested_comment: the loop over the braces, with its stack
RECURSIVE nested_loop(_, _, _)
nested_loop(braces, stk, len) ==
    IF Len(braces) = 0
    THEN IF Len(stk) > 0 THEN ParseErr(len) ELSE ParsePanic
    ELSE IF braces[1].kind = "Open"
    THEN nested_loop(Tail(braces), Append(stk, braces[1]), len)
    ELSE IF Len(stk) = 0 THEN ParsePanic
    ELSE IF Len(stk) = 1 THEN ParseOk(braces[1].index + 2)
    ELSE nested_loop(Tail(braces), SubSeq(stk, 1, Len(stk) - 1), len)

\* parse_nested_comment
parse_nested_comment(text) ==
    IF ~(Len(text) >= 2 /\ SubSeq(text, 1, 2) = <<"/", "*">>) THEN ParsePanic
    ELSE LET opens == Braces(match_indices(text, <<"/", "*">>, 0), "Open")
             closes == Braces(match_indices(text, <<"*", "/">>, 0), "Close")
             all_braces == merge(opens, closes)
         IN nested_loop(without_overlaps(all_braces, -1), <<>>, Len(text))

\* basic_parse_comment with the newline taken into the line comment
basic_parse_comment_newline(text) ==
    IF Len(text) >= 1 /\ text[1] = "%"
    THEN LET newline == first_index(text, {"\n"}, 0)
         IN IF newline # -1 THEN ParseOk(newline + 1) ELSE ParseOk(Len(text))
    ELSE IF Len(text) >= 2 /\ text[1] = "/" /\ text[2] = "*"
    THEN parse_nested_comment(text)
    ELSE IF Len(text) >= 1 /\ text[1] = "/" THEN ParseNone
    ELSE ParsePanic

\* basic_parse_comment
basic_parse_comment(text) ==
    IF Len(text) >= 1 /\ text[1] = "%"
    THEN LET newline == first_index(text, {"\n"}, 0)
         IN IF newline # -1 THEN ParseOk(newline) ELSE ParseOk(Len(text))
    ELSE IF Len(text) >= 2 /\ text[1] = "/" /\ text[2] = "*"
    THEN parse_nested_comment(text)
    ELSE IF Len(text) >= 1 /\ text[1] = "/" THEN ParseNone
    ELSE ParsePanic

\* basic_parse_string with the closing quote left out of the string
basic_parse_string_open(text) ==
    IF Len(text) >= 1 /\ text[1] = "\""
    THEN LET newline == first_index(Rest(text, 1), {"\""}, 0)
         IN IF newline # -1 THEN ParseOk(newline + 1) ELSE ParseErr(Len(text))
    ELSE ParsePanic

\* basic_parse_string with the error of an unterminated string covering the
\* opening quote only
basic_parse_string_short_error(text) ==
    IF Len(text) >= 1 /\ text[1] = "\""
    THEN LET newline == first_index(Rest(text, 1), {"\""}, 0)
         IN IF newline # -1 THEN ParseOk(newline + 2) ELSE ParseErr(1)
    ELSE ParsePanic

\* basic_parse_string
basic_parse_string(text) ==
    IF Len(text) >= 1 /\ text[1] = "\""
    THEN LET newline == first_index(Rest(text, 1), {"\""}, 0)
         IN IF newline # -1 THEN ParseOk(newline + 2) ELSE ParseErr(Len(text))
    ELSE ParsePanic

\* State::parse_comment
parse_comment(text) ==
    IF text[1] \in comment_start_chars THEN basic_parse_comment(text)
    ELSE ParseNone

\* State::parse_string
parse_string(text) ==
    IF text[1] \in string_start_chars THEN basic_parse_string(text)
    ELSE ParseNone

\* State::step of source_map.rs: which arm of the match is taken
step_arm(pc_res, ps_res) ==
    CASE pc_res.bytes = -1 \/ ps_res.bytes = -1 -> "panic"
      [] pc_res.some /\ pc_res.ok /\ ~ps_res.some -> "comments"
      [] pc_res.some /\ ~pc_res.ok /\ ~ps_res.some -> "comment_error"
      [] ~pc_res.some /\ ps_res.some /\ ps_res.ok -> "strings"
      [] ~pc_res.some /\ ps_res.some /\ ~ps_res.ok -> "string_error"
      [] ~pc_res.some /\ ~ps_res.some -> "none"
      [] OTHER -> "panic"

\* State::step with every range starting at the beginning of the chunk
push_range_from_zero(st, field, bytes) ==
    LET chunk_end == st.position - st.chunk_wip.chunk_start + bytes
    IN [position |-> st.position + bytes,
        chunk_wip |-> [st.chunk_wip EXCEPT
                         ![field] = Append(@, Range(0, chunk_end))]]

\* State::step with the position moved on by one byte only
push_range_stay(st, field, bytes) ==
    LET chunk_offset == st.position - st.chunk_wip.chunk_start
    IN [position |-> st.position + 1,
        chunk_wip |-> [st.chunk_wip EXCEPT
                         ![field] = Append(@, Range(chunk_offset,
                                                    chunk_offset + bytes))]]

\* State::step with the position moved one byte past the end of the range
push_range_past(st, field, bytes) ==
    LET chunk_offset == st.position - st.chunk_wip.chunk_start
        chunk_end == chunk_offset + bytes
    IN [position |-> st.position + bytes + 1,
        chunk_wip |-> [st.chunk_wip EXCEPT
                         ![field] = Append(@, Range(chunk_offset, chunk_end))]]

\* State::step of source_map.rs, the arms that push a range to the list
\* `field` of chunk_wip
push_range(st, field, bytes) ==
    LET chunk_offset == st.position - st.chunk_wip.chunk_start
        chunk_end == chunk_offset + bytes
    IN [position |-> st.position + bytes,
        chunk_wip |-> [st.chunk_wip EXCEPT
                         ![field] = Append(@, Range(chunk_offset, chunk_end))]]

\* State::map of source_map.rs: all_start_chars
all_start_chars == comment_start_chars \cup string_start_chars

\* State::map: the index of the next start character, -1 for None
next_start_char_index == first_index(source, all_start_chars, smap.position)

\* State::map: what step is called with, at the next start character
map_arm ==
    LET text_remaining == Rest(source, next_start_char_index)
    IN step_arm(parse_comment(text_remaining), parse_string(text_remaining))

\* State::map: the bytes the parser that matched gives
map_bytes ==
    LET text_remaining == Rest(source, next_start_char_index)
        pc_res == parse_comment(text_remaining)
    IN IF pc_res.some THEN pc_res.bytes
       ELSE parse_string(text_remaining).bytes

\* State::map and State::step up to the arm that pushes to `field`
MapPush(arm, field) ==
    /\ smap_pc = "scan"
    /\ next_start_char_index # -1
    /\ map_arm = arm
    /\ smap' = push_range([smap EXCEPT !.position = next_start_char_index],
                          field, map_bytes)
    /\ UNCHANGED <<source, smap_pc, chunk_in, ranges_it, cur_range, cstate,
                   chunks_pc, bracer_vars, lex_vars, lines_vars,
                   resolve_vars>>

\* (Some(Ok(comment_bytes)), None)
MapComment == MapPush("comments", "comments")

\* (Some(Err(comment_bytes)), None)
MapCommentError == MapPush("comment_error", "errors")

\* (None, Some(Ok(string_bytes)))
MapString == MapPush("strings", "strings")

\* (None, Some(Err(string_bytes)))
MapStringError == MapPush("string_error", "errors")

\* (None, None): one byte on; and the arms that end in a panic: (_, _),
\* the unreachable!() of the parsers, the assert on the position
MapNone ==
    /\ smap_pc = "scan"
    /\ next_start_char_index # -1
    /\ map_arm \in {"none", "panic"}
    /\ IF map_arm = "none" /\ next_start_char_index + 1 <= Len(source)
       THEN /\ smap' = [smap EXCEPT !.position = next_start_char_index + 1]
            /\ smap_pc' = smap_pc
       ELSE /\ smap' = [smap EXCEPT !.position = next_start_char_index]
            /\ smap_pc' = "panic"
    /\ UNCHANGED <<source, chunk_in, ranges_it, cur_range, cstate,
                   chunks_pc, bracer_vars, lex_vars, lines_vars,
                   resolve_vars>>

\* no start character is left: State::map returns Chunk::new
MapBreak ==
    /\ smap_pc = "scan"
    /\ next_start_char_index = -1
    /\ smap_pc' = "done"
    /\ chunk_in' = [text |-> source,
                    comments |-> smap.chunk_wip.comments,
                    strings |-> smap.chunk_wip.strings,
                    errors |-> smap.chunk_wip.errors]
    /\ UNCHANGED <<source, smap, ranges_it, cur_range, cstate, chunks_pc,
                   bracer_vars, lex_vars, lines_vars,
                   resolve_vars>>

\* a configuration that starts chunks at commas
comma_start_chars == {","}

\* ------------------------------------------------------------------------
\* Part B: the chunker (crates/bct/src/chunks.rs)
\* ------------------------------------------------------------------------
\* basic_config of chunks.rs: chunk_start_chars
chunk_start_chars == {"."}

\* basic_try_chunk: Some(1); -1 when its assert fails
basic_try_chunk(text) == IF text[1] = "." THEN 1 ELSE -1

\* State::try_chunk: the extra bytes, 0 for None
try_chunk(text) ==
    IF text[1] \in chunk_start_chars THEN basic_try_chunk(text) ELSE 0

\* Ranges::next of chunk.rs on the iterator `it`: the item (kind "None"
\* for None, "unreachable" for the unreachable!() arm) and the iterator
Ranges_next(it, chunk_len) ==
    IF Len(it.known_ranges) = 0
    THEN IF it.position < chunk_len
         THEN [range |-> Range(it.position, chunk_len), kind |-> "Unknown",
               it |-> [it EXCEPT !.position = chunk_len]]
         ELSE [range |-> Range(0, 0), kind |-> "None", it |-> it]
    ELSE LET known == it.known_ranges[1]
         IN IF it.position < known.range.start
            THEN [range |-> Range(it.position, known.range.start),
                  kind |-> "Unknown",
                  it |-> [it EXCEPT !.position = known.range.start]]
            ELSE IF it.position = known.range.start
            THEN [range |-> known.range, kind |-> known.kind,
                  it |-> [position |-> known.range.end,
                          known_ranges |-> Tail(it.known_ranges)]]
            ELSE [range |-> Range(0, 0), kind |-> "unreachable", it |-> it]

\* State::collect_ranges keeping the document offsets of the ranges
RECURSIVE collect_from_absolute(_, _, _, _, _)
collect_from_absolute(list, taken, wip, pos, chunk_start) ==
    IF taken >= Len(list) \/ list[taken + 1].start >= pos
    THEN [iter |-> taken, vec |-> wip, panic |-> FALSE]
    ELSE collect_from_absolute(list, taken + 1, Append(wip, list[taken + 1]),
                               pos, chunk_start)

\* State::collect_ranges, for one of the three lists: `taken` is the
\* number of ranges of `list` the iterator has given, `wip` the list of
\* chunk_wip
RECURSIVE collect_from(_, _, _, _, _)
collect_from(list, taken, wip, pos, chunk_start) ==
    IF taken >= Len(list) \/ list[taken + 1].start >= pos
    THEN [iter |-> taken, vec |-> wip, panic |-> FALSE]
    ELSE IF list[taken + 1].end > pos \/ list[taken + 1].start < chunk_start
    THEN [iter |-> taken, vec |-> wip, panic |-> TRUE]
    ELSE collect_from(list, taken + 1,
                      Append(wip, Range(list[taken + 1].start - chunk_start,
                                        list[taken + 1].end - chunk_start)),
                      pos, chunk_start)

\* State::collect_ranges
collect_ranges(st, c) ==
    LET cs == st.chunk_wip.chunk_start
        co == collect_from(c.comments, st.comments_iter,
                           st.chunk_wip.comments, st.position, cs)
        so == collect_from(c.strings, st.strings_iter,
                           st.chunk_wip.strings, st.position, cs)
        eo == collect_from(c.errors, st.errors_iter,
                           st.chunk_wip.errors, st.position, cs)
    IN [st |-> [st EXCEPT !.comments_iter = co.iter,
                          !.strings_iter = so.iter,
                          !.errors_iter = eo.iter,
                          !.chunk_wip.comments = co.vec,
                          !.chunk_wip.strings = so.vec,
                          !.chunk_wip.errors = eo.vec],
        panic |-> co.panic \/ so.panic \/ eo.panic]

\* the chunk text without its last byte
chunk_text_without_last(text_all, chunk_start, pos) ==
    SubSeq(text_all, chunk_start + 1, pos - 1)

\* State::push_chunk: chunk_text
chunk_text_of(text_all, chunk_start, pos) ==
    SubSeq(text_all, chunk_start + 1, pos)

\* State::push_chunk
push_chunk(st, eat_bytes, c) ==
    LET moved == [st EXCEPT !.position = @ + eat_bytes]
        coll == collect_ranges(moved, c)
        s1 == coll.st
        chunk_text == chunk_text_of(c.text, s1.chunk_wip.chunk_start,
                                    s1.position)
        pushed ==
            IF Len(chunk_text) > 0
            THEN [s1 EXCEPT
                    !.chunks = Append(@, [text |-> chunk_text,
                                          comments |-> s1.chunk_wip.comments,
                                          strings |-> s1.chunk_wip.strings,
                                          errors |-> s1.chunk_wip.errors]),
                    !.chunk_wip.comments = <<>>,
                    !.chunk_wip.strings = <<>>,
                    !.chunk_wip.errors = <<>>]
            ELSE s1
    IN [st |-> [pushed EXCEPT !.chunk_wip.chunk_start = s1.position],
        panic |-> \/ coll.panic
                  \/ s1.position > Len(c.text)
                  \/ s1.chunk_wip.chunk_start > s1.position
                  \/ ~is_char_boundary(c.text, s1.chunk_wip.chunk_start)
                  \/ ~is_char_boundary(c.text, s1.position)]

\* chunks(): the State, on the Chunk that source_map returned
ChunksStart ==
    /\ smap_pc = "done"
    /\ chunks_pc = "idle"
    /\ cstate' = NoState
    /\ ranges_it' = [position |-> 0,
                     known_ranges |-> merged_known_ranges(chunk_in)]
    /\ chunks_pc' = "for"
    /\ UNCHANGED <<source, smap, smap_pc, chunk_in, cur_range, bracer_vars,
                   lex_vars, lines_vars,
                   resolve_vars>>

\* State::map of chunks.rs: the next range is not Unknown: continue (and
\* the unreachable!() of Ranges::next)
ForKnown ==
    /\ chunks_pc = "for"
    /\ LET item == Ranges_next(ranges_it, Len(chunk_in.text))
       IN /\ item.kind \in {"Comment", "String", "Error", "unreachable"}
          /\ ranges_it' = item.it
          /\ chunks_pc' = IF item.kind = "unreachable" THEN "panic"
                          ELSE chunks_pc
    /\ UNCHANGED <<source, smap, smap_pc, chunk_in, cur_range, cstate,
                   bracer_vars, lex_vars, lines_vars,
                   resolve_vars>>

\* State::map of chunks.rs: the next range is Unknown: scan it
ForUnknown ==
    /\ chunks_pc = "for"
    /\ LET item == Ranges_next(ranges_it, Len(chunk_in.text))
       IN /\ item.kind = "Unknown"
          /\ ranges_it' = item.it
          /\ cur_range' = item.range
          /\ cstate' = [cstate EXCEPT !.position = item.range.start]
    /\ chunks_pc' = "loop"
    /\ UNCHANGED <<source, smap, smap_pc, chunk_in, bracer_vars, lex_vars,
                   lines_vars,
                   resolve_vars>>

\* State::map of chunks.rs, the loop: the index of the next chunk start
\* character in text_all[position..range.end], -1 for None
next_chunk_char_index ==
    first_index(SubSeq(chunk_in.text, 1, cur_range.end), chunk_start_chars,
                cstate.position)

\* State::map of chunks.rs, the loop: a chunk start character is found:
\* try_chunk and State::step
LoopStep ==
    /\ chunks_pc = "loop"
    /\ next_chunk_char_index # -1
    /\ LET at == [cstate EXCEPT !.position = next_chunk_char_index]
           try_chunk_res == try_chunk(Rest(chunk_in.text, at.position))
           pushed == push_chunk(at, try_chunk_res, chunk_in)
       IN IF try_chunk_res > 0
          THEN /\ cstate' = pushed.st
               /\ chunks_pc' = IF pushed.panic
                                  \/ pushed.st.position > cur_range.end
                               THEN "panic" ELSE chunks_pc
          ELSE IF try_chunk_res = 0
          THEN /\ cstate' = [at EXCEPT !.position = @ + 1]
               /\ chunks_pc' = chunks_pc
          ELSE /\ cstate' = at
               /\ chunks_pc' = "panic"
    /\ UNCHANGED <<source, smap, smap_pc, chunk_in, ranges_it, cur_range,
                   bracer_vars, lex_vars, lines_vars,
                   resolve_vars>>

\* State::map of chunks.rs, the loop: no chunk start character is left
LoopBreak ==
    /\ chunks_pc = "loop"
    /\ next_chunk_char_index = -1
    /\ cstate' = [cstate EXCEPT !.position = cur_range.end]
    /\ chunks_pc' = "for"
    /\ UNCHANGED <<source, smap, smap_pc, chunk_in, ranges_it, cur_range,
                   bracer_vars, lex_vars, lines_vars,
                   resolve_vars>>

\* State::map of chunks.rs, behind the for loop: the last chunk, the
\* asserts, Chunks::new
ForEnd ==
    /\ chunks_pc = "for"
    /\ Ranges_next(ranges_it, Len(chunk_in.text)).kind = "None"
    /\ LET pushed == push_chunk(cstate, Len(chunk_in.text) - cstate.position,
                                chunk_in)
       IN /\ cstate' = pushed.st
          /\ chunks_pc' =
               IF \/ pushed.panic
                  \/ cstate.position > Len(chunk_in.text)
                  \/ pushed.st.position # pushed.st.chunk_wip.chunk_start
                  \/ Len(pushed.st.chunk_wip.comments) > 0
                  \/ Len(pushed.st.chunk_wip.strings) > 0
                  \/ Len(pushed.st.chunk_wip.errors) > 0
               THEN "panic" ELSE "done"
    /\ UNCHANGED <<source, smap, smap_pc, chunk_in, ranges_it, cur_range,
                   bracer_vars, lex_vars, lines_vars,
                   resolve_vars>>

\* source_map is called on a source text
DocInit ==
    /\ BracerIdle
    /\ LexIdle
    /\ LinesIdle
    /\ GraphIdle
    /\ ResolverIdle
    /\ source \in SourceTexts
    /\ smap = [position |-> 0, chunk_wip |-> NoRanges]
    /\ smap_pc = "scan"
    /\ chunk_in = NoChunk
    /\ ranges_it = [position |-> 0, known_ranges |-> <<>>]
    /\ cur_range = [start |-> 0, end |-> 0]
    /\ cstate = NoState
    /\ chunks_pc = "idle"

DocNext ==
    \/ MapComment
    \/ MapCommentError
    \/ MapString
    \/ MapStringError
    \/ MapNone
    \/ MapBreak
    \/ ChunksStart
    \/ ForKnown
    \/ ForUnknown
    \/ LoopStep
    \/ LoopBreak
    \/ ForEnd

DocSpec == DocInit /\ [][DocNext]_vars

NoDocPanic == smap_pc # "panic" /\ chunks_pc # "panic"

\* ------------------------------------------------------------------------
\* Claims about the segmenter
\* ------------------------------------------------------------------------
Disjoint(r1, r2) == r1.end <= r2.start \/ r2.end <= r1.start

SortedDisjoint(list) ==
    \A i, j \in 1..Len(list) :
        i < j => list[i].start < list[j].start /\ Disjoint(list[i], list[j])

AcrossDisjoint(l1, l2) ==
    \A i \in 1..Len(l1) : \A j \in 1..Len(l2) : Disjoint(l1[i], l2[j])

InsideText(list, text) ==
    \A i \in 1..Len(list) :
        /\ 0 <= list[i].start
        /\ list[i].start <= list[i].end
        /\ list[i].end <= Len(text)
        /\ is_char_boundary(text, list[i].start)
        /\ is_char_boundary(text, list[i].end)

\* C12: for every source text, the ranges the segmenter puts in comments,
\* strings and errors are each sorted ascending by start, pairwise disjoint
\* within a list and across the three lists, inside [0, len(text)], with
\* both endpoints on character boundaries.
C12_RangesSortedDisjoint ==
    smap_pc = "done" =>
        /\ SortedDisjoint(chunk_in.comments)
        /\ SortedDisjoint(chunk_in.strings)
        /\ SortedDisjoint(chunk_in.errors)
        /\ AcrossDisjoint(chunk_in.comments, chunk_in.strings)
        /\ AcrossDisjoint(chunk_in.comments, chunk_in.errors)
        /\ AcrossDisjoint(chunk_in.strings, chunk_in.errors)
        /\ InsideText(chunk_in.comments, chunk_in.text)
        /\ InsideText(chunk_in.strings, chunk_in.text)
        /\ InsideText(chunk_in.errors, chunk_in.text)

\* a segmented text with a character of two bytes, an Error range and a
\* Comment or String range
C12_Witness ==
    /\ smap_pc = "done"
    /\ \E i \in 1..Len(chunk_in.text) : chunk_in.text[i] = "E2"
    /\ Len(chunk_in.comments) + Len(chunk_in.strings) >= 1
    /\ Len(chunk_in.errors) >= 1

\* the segmenter stands before a start character: it is at index `at`
AtStart(at) == smap_pc = "scan" /\ at = next_start_char_index /\ at # -1

StartsWith(text, at, pat) ==
    at + Len(pat) <= Len(text) /\ SubSeq(text, at + 1, at + Len(pat)) = pat

\* the step pushes Range(s, e) to the list `field`, nothing to the other
\* lists, and scanning resumes at e
Pushes(field, s, e) ==
    /\ smap'.chunk_wip = [smap.chunk_wip EXCEPT ![field] = Append(@, Range(s, e))]
    /\ smap'.position = e
    /\ smap_pc' = "scan"

\* the markers of a text that starts with "/*"
IsOpenAt(t, i) == StartsWith(t, i, <<"/", "*">>)

IsCloseAt(t, i) == StartsWith(t, i, <<"*", "/">>)

\* a marker is counted unless it starts one byte after a counted marker
RECURSIVE Counted(_, _)
Counted(t, i) ==
    /\ IsOpenAt(t, i) \/ IsCloseAt(t, i)
    /\ i = 0 \/ ~Counted(t, i - 1)

\* the nesting depth behind the marker at i
DepthAt(t, i) ==
    Cardinality({j \in 0..i : Counted(t, j) /\ IsOpenAt(t, j)})
      - Cardinality({j \in 0..i : Counted(t, j) /\ IsCloseAt(t, j)})

\* the counted closers that bring the depth back to zero
ClosersToZero(t) ==
    {i \in 0..(Len(t) - 1) :
        Counted(t, i) /\ IsCloseAt(t, i) /\ DepthAt(t, i) = 0}

Minimum(S) == CHOOSE m \in S : \A n \in S : m <= n

\* C13: for text starting at a "/*", the segmenter counts the "/*" and "*/"
\* markers in position order, ignoring a marker that starts one byte after
\* the previously counted one: when the depth returns to zero the range is
\* a Comment ending right behind that "*/", otherwise an Error range to the
\* end of the text; "/*/**/*/" is one Comment of length 8 and "/*/**/ab"
\* one Error over the whole text.
C13_NestedComment ==
    /\ [][\A at \in 0..Len(source) :
            AtStart(at) /\ IsOpenAt(source, at) =>
              LET t == Rest(source, at)
              IN IF ClosersToZero(t) # {}
                 THEN Pushes("comments", at,
                             at + Minimum(ClosersToZero(t)) + 2)
                 ELSE Pushes("errors", at, Len(source))]_vars
    /\ [](smap_pc = "done"
            /\ source = <<"/", "*", "/", "*", "*", "/", "*", "/">>
          => /\ chunk_in.comments = <<Range(0, 8)>>
             /\ chunk_in.strings = <<>>
             /\ chunk_in.errors = <<>>)
    /\ [](smap_pc = "done"
            /\ source = <<"/", "*", "/", "*", "*", "/", "a", "a">>
          => /\ chunk_in.errors = <<Range(0, 8)>>
             /\ chunk_in.strings = <<>>
             /\ chunk_in.comments = <<>>)

\* "/*/**/*/" has been segmented
C13_Witness ==
    /\ smap_pc = "done"
    /\ source = <<"/", "*", "/", "*", "*", "/", "*", "/">>
    /\ chunk_in.comments = <<Range(0, 8)>>

\* the positions behind p where text has the byte b
Later(text, p, b) == {q \in (p + 1)..(Len(text) - 1) : text[q + 1] = b}

\* C14: for a `"` met in unclassified text at position p the segmenter
\* emits a String range [p, q+1), q being the position of the next `"`
\* behind p; with no later `"` it emits an Error range [p, len(text));
\* it fails in neither case (`"` and three more characters without a
\* quote give one Error range of length 4).
C14_StringOrError ==
    /\ [][\A p \in 0..Len(source) :
            AtStart(p) /\ source[p + 1] = "\"" =>
              IF Later(source, p, "\"") # {}
              THEN Pushes("strings", p, Minimum(Later(source, p, "\"")) + 1)
              ELSE Pushes("errors", p, Len(source))]_vars
    /\ [](smap_pc = "done" /\ source = <<"\"", "a", "a", "a">>
          => /\ chunk_in.errors = <<Range(0, 4)>>
             /\ chunk_in.strings = <<>>
             /\ chunk_in.comments = <<>>)
    /\ [](smap_pc # "panic")

\* a terminated string behind unclassified text has been pushed
C14_Witness ==
    /\ smap_pc = "scan"
    /\ smap.chunk_wip.strings = <<Range(1, 4)>>
    /\ smap.position = 4
    /\ Len(source) >= 4
    /\ source[1] = "a"

\* C15: for a `%` met in unclassified text at position p the segmenter
\* always emits a Comment range from p to the position of the next newline
\* (which is not part of the range), or to the end of the text when there
\* is no later newline; a single `/` not followed by `*` produces no range
\* and scanning resumes one byte later.
C15_LineComment ==
    [][\A p \in 0..Len(source) :
         /\ AtStart(p) /\ source[p + 1] = "%" =>
              IF Later(source, p, "\n") # {}
              THEN Pushes("comments", p, Minimum(Later(source, p, "\n")))
              ELSE Pushes("comments", p, Len(source))
         /\ AtStart(p) /\ source[p + 1] = "/" /\ ~IsOpenAt(source, p) =>
              /\ smap'.chunk_wip = smap.chunk_wip
              /\ smap'.position = p + 1
              /\ smap_pc' = "scan"]_vars

\* a line comment that ends before a newline, behind a single `/`
C15_Witness ==
    /\ smap_pc = "scan"
    /\ Len(source) = 4
    /\ source[1] = "/"
    /\ source[4] = "\n"
    /\ smap.chunk_wip.comments = <<Range(1, 3)>>

AllRanges(wip) ==
    {wip.comments[i] : i \in 1..Len(wip.comments)}
      \cup {wip.strings[i] : i \in 1..Len(wip.strings)}
      \cup {wip.errors[i] : i \in 1..Len(wip.errors)}

\* C16: a start character inside an already classified range never starts
\* a range of its own (a `"` or `/*` inside a Comment, a `%` or `/*` inside
\* a String, any start character inside an Error range), because scanning
\* resumes only behind the end of the range matched first.
C16_OuterRangeWins ==
    /\ \A r1, r2 \in AllRanges(smap.chunk_wip) :
         ~(r1.start < r2.start /\ r2.start < r1.end)
    /\ \A r \in AllRanges(smap.chunk_wip) : r.end <= smap.position

\* start characters of the other kinds lie inside a String and inside a
\* Comment, and the String and the Comment are the only ranges
C16_Witness ==
    /\ smap_pc = "done"
    /\ \/ /\ source = <<"\"", "%", "\"">>
          /\ chunk_in.strings = <<Range(0, 3)>>
       \/ /\ source = <<"%", "\"", "/", "*">>
          /\ chunk_in.comments = <<Range(0, 4)>>
    /\ Len(chunk_in.comments) + Len(chunk_in.strings) = 1
    /\ chunk_in.errors = <<>>

\* ------------------------------------------------------------------------
\* Claims about the chunker
\* ------------------------------------------------------------------------
RECURSIVE ConcatTexts(_)
ConcatTexts(cs) ==
    IF Len(cs) = 0 THEN <<>> ELSE cs[1].text \o ConcatTexts(Tail(cs))

\* the document offset at which the n-th emitted chunk starts
ChunkStart(n) == Len(ConcatTexts(SubSeq(cstate.chunks, 1, n - 1)))

\* the document ends with a Comment, String or Error range
EndsWithKnownRange ==
    \E r \in AllRanges(chunk_in) : r.end = Len(chunk_in.text)

\* C17: the texts of the chunks the chunker returns, concatenated in order,
\* equal the document text byte for byte, also when the document ends with
\* a Comment, String or Error range.
C17_ChunksConcatenate ==
    /\ chunks_pc # "panic"
    /\ chunks_pc = "done" => ConcatTexts(cstate.chunks) = chunk_in.text

\* a document of several chunks that ends with a classified range
C17_Witness ==
    /\ chunks_pc = "done"
    /\ Len(cstate.chunks) >= 2
    /\ EndsWithKnownRange
    /\ ConcatTexts(cstate.chunks) = chunk_in.text

\* the ranges of the list `field` of the chunks n.., back in document
\* offsets
RECURSIVE GlobalRanges(_, _)
GlobalRanges(field, n) ==
    IF n > Len(cstate.chunks) THEN <<>>
    ELSE [i \in 1..Len(cstate.chunks[n][field]) |->
            Range(cstate.chunks[n][field][i].start + ChunkStart(n),
                  cstate.chunks[n][field][i].end + ChunkStart(n))]
           \o GlobalRanges(field, n + 1)

LocalRangesInside(field) ==
    \A n \in 1..Len(cstate.chunks) :
        \A i \in 1..Len(cstate.chunks[n][field]) :
            /\ 0 <= cstate.chunks[n][field][i].start
            /\ cstate.chunks[n][field][i].end <= Len(cstate.chunks[n].text)

\* C18: every Comment, String and Error range of the segmented document
\* appears in exactly one chunk, with the same kind, inside that chunk's
\* text and in that chunk's local offsets (document offset minus the
\* chunk's start); behind the last chunk no range is left uncollected.
C18_RangesInOneChunk ==
    chunks_pc = "done" =>
        /\ \A field \in {"comments", "strings", "errors"} :
             /\ GlobalRanges(field, 1) = chunk_in[field]
             /\ LocalRangesInside(field)
             /\ cstate.chunk_wip[field] = <<>>
        /\ cstate.comments_iter = Len(chunk_in.comments)
        /\ cstate.strings_iter = Len(chunk_in.strings)
        /\ cstate.errors_iter = Len(chunk_in.errors)

\* a chunk behind the first one holds a range
C18_Witness ==
    /\ chunks_pc = "done"
    /\ \E n \in 2..Len(cstate.chunks) :
         Len(cstate.chunks[n].comments) + Len(cstate.chunks[n].strings) > 0

\* the `.` of the document that lie in an Unknown region
UnknownDots ==
    {i \in 0..(Len(chunk_in.text) - 1) :
        /\ chunk_in.text[i + 1] = "."
        /\ \A r \in AllRanges(chunk_in) : ~(r.start <= i /\ i < r.end)}

KnownDots ==
    {i \in 0..(Len(chunk_in.text) - 1) :
        /\ chunk_in.text[i + 1] = "."
        /\ \E r \in AllRanges(chunk_in) : r.start <= i /\ i < r.end}

\* the document offsets at which an emitted chunk ends
ChunkEnds == {ChunkStart(n + 1) : n \in 1..Len(cstate.chunks)}

\* C19: with the default configuration every `.` in an Unknown region ends
\* the current chunk as its last byte and the next chunk begins at the
\* following byte; a `.` inside a Comment, String or Error range never ends
\* a chunk; no emitted chunk has empty text (an empty document gives zero
\* chunks, a document ending in `.` no trailing empty chunk).
C19_ChunksEndAtDots ==
    /\ \A n \in 1..Len(cstate.chunks) : Len(cstate.chunks[n].text) > 0
    /\ chunks_pc = "done" =>
         /\ ChunkEnds = {i + 1 : i \in UnknownDots}
                          \cup (IF Len(chunk_in.text) > 0
                                THEN {Len(chunk_in.text)} ELSE {})
         /\ Cardinality(ChunkEnds) = Len(cstate.chunks)
         /\ Len(chunk_in.text) = 0 => cstate.chunks = <<>>

\* two chunks, the first ended by a `.`, the second with a `.` inside a
\* classified range
C19_Witness ==
    /\ chunks_pc = "done"
    /\ Len(cstate.chunks) = 2
    /\ UnknownDots # {}
    /\ KnownDots # {}

\* ------------------------------------------------------------------------
\* Part E: lines (crates/bct/src/lines.rs)
\* ------------------------------------------------------------------------
MaxLineItems == 4

\* the TreeTokens an iterator can yield, as far as lines() looks at them:
\* tokens with their kind and text, and a Branch with its tokens
TreeTokens ==
    { [type |-> "Token", kind |-> "Word", text |-> <<"a">>, inner |-> <<>>],
      [type |-> "Token", kind |-> "Whitespace", text |-> <<" ">>,
       inner |-> <<>>],
      [type |-> "Token", kind |-> "Whitespace", text |-> <<" ", "\n">>,
       inner |-> <<>>],
      [type |-> "Token", kind |-> "String", text |-> <<"\"", "\n", "\"">>,
       inner |-> <<>>],
      [type |-> "Branch", kind |-> "ParenOpen", text |-> <<>>,
       inner |-> <<[type |-> "Token", kind |-> "Whitespace",
                    text |-> <<"\n">>, inner |-> <<>>]>>] }

\* str::contains("\n")
contains_newline(text) == \E i \in 1..Len(text) : text[i] = "\n"

\* any item with a newline somewhere in its text
any_newline(token) ==
    \/ contains_newline(token.text)
    \/ \E i \in 1..Len(token.inner) : contains_newline(token.inner[i].text)

\* TreeToken::is_whitespace_newline
is_whitespace_newline(token) ==
    IF token.type = "Token"
    THEN IF token.kind = "Whitespace" THEN contains_newline(token.text)
         ELSE FALSE
    ELSE FALSE

\* the batching closure taking one more item behind the newline
RECURSIVE skip_line_past(_, _)
skip_line_past(items, given) ==
    IF given >= Len(items) THEN given
    ELSE IF is_whitespace_newline(items[given + 1])
    THEN IF given + 2 <= Len(items) THEN given + 2 ELSE given + 1
    ELSE skip_line_past(items, given + 1)

\* the batching closure: `while let Some(token) = iter.next()` with its
\* break; the number of items the iterator has given afterwards
RECURSIVE skip_line(_, _)
skip_line(items, given) ==
    IF given >= Len(items) THEN given
    ELSE IF is_whitespace_newline(items[given + 1]) THEN given + 1
    ELSE skip_line(items, given + 1)

\* the inner iterator the closure returns: the clone of the iterator (as
\* the number of items it has given), the state of the scan, the items
\* yielded, and whether it has returned None
InnerIter(given) ==
    [given |-> given, stop |-> FALSE, out |-> <<>>, done |-> FALSE]

\* lines() is called on an iterator
LinesInit ==
    /\ BracerIdle
    /\ LexIdle
    /\ DocIdle
    /\ GraphIdle
    /\ ResolverIdle
    /\ line_items \in UNION {[1..n -> TreeTokens] : n \in 0..MaxLineItems}
    /\ line_iter = 0
    /\ lines = <<>>
    /\ lines_pc = "batching"

\* the batching closure returns Some(iter_clone.scan(..))
BatchingSome ==
    /\ lines_pc = "batching"
    /\ line_iter < Len(line_items)
    /\ line_iter' = skip_line(line_items, line_iter)
    /\ lines' = Append(lines, InnerIter(line_iter))
    /\ UNCHANGED <<line_items, lines_pc, bracer_vars, lex_vars, doc_vars,
                   resolve_vars>>

\* the batching closure returns None: iter_clone.peek() is None
BatchingNone ==
    /\ lines_pc = "batching"
    /\ line_iter >= Len(line_items)
    /\ line_iter' = skip_line(line_items, line_iter)
    /\ lines_pc' = "done"
    /\ UNCHANGED <<line_items, lines, bracer_vars, lex_vars, doc_vars,
                   resolve_vars>>

\* next() of the n-th inner iterator: the scan closure on the next item of
\* its clone of the iterator
InnerNext(n) ==
    /\ ~lines[n].done
    /\ LET it == lines[n]
       IN IF it.given >= Len(line_items)
          THEN lines' = [lines EXCEPT ![n].done = TRUE]
          ELSE LET token == line_items[it.given + 1]
               IN IF it.stop
                  THEN lines' = [lines EXCEPT ![n].given = @ + 1,
                                              ![n].done = TRUE]
                  ELSE lines' = [lines EXCEPT
                                   ![n].given = @ + 1,
                                   ![n].stop = is_whitespace_newline(token),
                                   ![n].out = Append(@, token)]
    /\ UNCHANGED <<line_items, line_iter, lines_pc, bracer_vars, lex_vars,
                   doc_vars, resolve_vars>>

LinesNext ==
    \/ BatchingSome
    \/ BatchingNone
    \/ \E n \in 1..Len(lines) : InnerNext(n)

LinesSpec == LinesInit /\ [][LinesNext]_vars

\* ------------------------------------------------------------------------
\* Claims about lines
\* ------------------------------------------------------------------------
\* the top-level Whitespace tokens with a newline in their text
NewlineAt(i) ==
    /\ line_items[i].type = "Token"
    /\ line_items[i].kind = "Whitespace"
    /\ "\n" \in {line_items[i].text[k] : k \in 1..Len(line_items[i].text)}

\* the last item of the line that starts with item s
LineEnd(s) ==
    IF \E i \in s..Len(line_items) : NewlineAt(i)
    THEN Minimum({i \in s..Len(line_items) : NewlineAt(i)})
    ELSE Len(line_items)

\* the first item of the n-th line
RECURSIVE LineStart(_)
LineStart(n) == IF n = 1 THEN 1 ELSE LineEnd(LineStart(n - 1)) + 1

\* C20: each inner iterator of lines() yields the items of the underlying
\* iterator from where the previous line stopped up to and including the
\* first top-level Whitespace token whose text contains a newline, and
\* nothing after it; a Branch never ends a line, even with a newline
\* inside it.
C20_LinesEndAtNewline ==
    \A n \in 1..Len(lines) :
        LET line == SubSeq(line_items, LineStart(n), LineEnd(LineStart(n)))
        IN /\ IsPrefix(lines[n].out, line)
           /\ lines[n].done => lines[n].out = line
           /\ Len(line) > 0

\* two lines are drained; the first holds a Branch with a newline inside
\* and goes on behind it up to a top-level newline
C20_Witness ==
    /\ Len(lines) = 2
    /\ lines[1].done /\ lines[2].done
    /\ Len(lines[1].out) = 3
    /\ lines[1].out[1].type = "Branch"
    /\ any_newline(lines[1].out[1])
    /\ Len(lines[2].out) = 1

\* the items yielded by the lines n.., one after the other
RECURSIVE ConcatLines(_)
ConcatLines(n) ==
    IF n > Len(lines) THEN <<>> ELSE lines[n].out \o ConcatLines(n + 1)

\* the outer iterator has ended and every inner iterator is drained
LinesDrained ==
    lines_pc = "done" /\ \A n \in 1..Len(lines) : lines[n].done

\* C21: the lines of lines(), concatenated in order, give exactly the item
\* sequence of the underlying iterator; no line is empty; the outer
\* iterator ends exactly when the underlying iterator is exhausted: an
\* empty input has no line, a whitespace-only input one line with the one
\* whitespace token, an input ending in a newline no empty last line.
C21_LinesPartitionItems ==
    /\ lines_pc = "done" => line_iter = Len(line_items)
    /\ \A n \in 1..Len(lines) : lines[n].done => Len(lines[n].out) > 0
    /\ LinesDrained =>
         /\ ConcatLines(1) = line_items
         /\ line_items = <<>> => lines = <<>>
         /\ Len(line_items) = 1 => Len(lines) = 1 /\ lines[1].out = line_items
         /\ Len(line_items) > 0 /\ NewlineAt(Len(line_items)) =>
              Len(lines) = Cardinality({i \in 1..Len(line_items) : NewlineAt(i)})

\* an input of two lines that ends in a newline is drained
C21_Witness ==
    /\ LinesDrained
    /\ Len(lines) = 2
    /\ Len(line_items) = 4
    /\ NewlineAt(4)
    /\ ConcatLines(1) = line_items

\* ------------------------------------------------------------------------
\* Part F: the module graph (crates/bct/src/module_graph.rs)
\* ------------------------------------------------------------------------
MaxModules == 3

MaxCalls == 4

\* a ModuleId that no add_module call of this builder has returned
ForeignId == 0

\* the ModuleIds a caller can hold: ModuleId::new gives a new id on every
\* call, so the n-th add_module returns the id n
ModuleIds == {ForeignId} \cup 1..MaxModules

\* the names of imports and exports
Names == {"f", "g"}

\* ModuleGraphBuilder::add_module: the builder afterwards (the id returned
\* is the length of modules afterwards)
add_module(b) ==
    LET id == Len(b.modules) + 1
    IN [modules |-> Append(b.modules, id),
        module_by_id |-> b.module_by_id \cup {id},
        imports |-> Append(b.imports, <<>>),
        dependencies |-> Append(b.dependencies, {})]

\* mutant of add_import: the import is recorded but not the dependency
add_import_no_dep(b, module_id, local_name, source_module, export_name) ==
    LET import == [local_name |-> local_name,
                   source_module |-> source_module,
                   export_name |-> export_name]
    IN IF module_id \in DOMAIN b.imports
       THEN [b EXCEPT !.imports[module_id] = Append(@, import)]
       ELSE b

\* mutant of add_import: an unknown module_id gets entries of its own, as
\* with entry().or_default()
add_import_or_insert(b, module_id, local_name, source_module, export_name) ==
    LET import == [local_name |-> local_name,
                   source_module |-> source_module,
                   export_name |-> export_name]
    IN IF module_id \in DOMAIN b.imports
       THEN [b EXCEPT !.imports[module_id] = Append(@, import),
                      !.dependencies[module_id] = @ \cup {source_module}]
       ELSE [b EXCEPT !.imports = (module_id :> <<import>>) @@ @,
                      !.dependencies = (module_id :> {source_module}) @@ @]

\* ModuleGraphBuilder::add_import
add_import(b, module_id, local_name, source_module, export_name) ==
    LET import == [local_name |-> local_name,
                   source_module |-> source_module,
                   export_name |-> export_name]
    IN IF module_id \in DOMAIN b.imports
       THEN [b EXCEPT !.imports[module_id] = Append(@, import),
                      !.dependencies[module_id] = @ \cup {source_module}]
       ELSE b

\* ModuleGraphBuilder::new
GraphInit ==
    /\ BracerIdle
    /\ LexIdle
    /\ DocIdle
    /\ LinesIdle
    /\ builder = NewBuilder
    /\ builder_calls = 0
    /\ graph_pc = "building"
    /\ ResolverIdle

\* a call of add_module
AddModule ==
    /\ graph_pc = "building"
    /\ builder_calls < MaxCalls
    /\ Len(builder.modules) < MaxModules
    /\ builder' = add_module(builder)
    /\ builder_calls' = builder_calls + 1
    /\ UNCHANGED <<graph_pc, resolver, bracer_vars, lex_vars, doc_vars,
                   lines_vars>>

\* a call of add_import
AddImport ==
    /\ graph_pc = "building"
    /\ builder_calls < MaxCalls
    /\ \E module_id, source_module \in ModuleIds :
         \E local_name \in Names :
           builder' = add_import(builder, module_id, local_name,
                                 source_module, local_name)
    /\ builder_calls' = builder_calls + 1
    /\ UNCHANGED <<graph_pc, resolver, bracer_vars, lex_vars, doc_vars,
                   lines_vars>>

\* ModuleGraphBuilder::build
Build ==
    /\ graph_pc = "building"
    /\ graph_pc' = "built"
    /\ UNCHANGED <<builder, builder_calls, resolver, bracer_vars, lex_vars,
                   doc_vars, lines_vars>>

GraphNext ==
    \/ AddModule
    \/ AddImport
    \/ Build

GraphSpec == GraphInit /\ [][GraphNext]_vars

\* ------------------------------------------------------------------------
\* Claims about the module graph
\* ------------------------------------------------------------------------
\* the place of the module id in the modules ordering, 0 when it is not a
\* module of the graph
PlaceOf(id) ==
    IF \E i \in 1..Len(builder.modules) : builder.modules[i] = id
    THEN CHOOSE i \in 1..Len(builder.modules) : builder.modules[i] = id
    ELSE 0

\* C22: in every ModuleGraph built after any sequence of add_module and
\* add_import calls, every module in dependencies(m) is a module of the
\* graph and appears strictly earlier than m in the modules ordering.
C22_DependenciesEarlier ==
    graph_pc = "built" =>
        \A m \in DOMAIN builder.dependencies :
            \A d \in builder.dependencies[m] :
                PlaceOf(d) # 0 /\ PlaceOf(d) < PlaceOf(m)

\* ------------------------------------------------------------------------
\* BracerIter::text_span (crates/bcts/src/bracer.rs)
\* ------------------------------------------------------------------------
\* the length in bytes of the text of a token: a word of two characters,
\* sigils of one
token_len(kind) == IF kind = "Word" THEN 2 ELSE 1

\* token.text(db).range(db): the tokens of a chunk lie one behind the other
RECURSIVE token_range(_, _)
token_range(toks, i) ==
    IF i = 0 THEN Range(0, token_len(toks[1]))
    ELSE LET before == token_range(toks, i - 1)
         IN Range(before.end, before.end + token_len(toks[i + 1]))

\* Option<TextSpan>
NoSpan == [some |-> FALSE, span |-> Range(0, 0)]

SomeSpan(span) == [some |-> TRUE, span |-> span]

\* text_span with the span starting behind the opener
text_span_inside(it, toks) ==
    IF it.real_token_range.start = 0 \/ it.real_token_range.end = 0
       \/ it.real_token_range.end > Len(toks)
    THEN NoSpan
    ELSE SomeSpan(Range(token_range(toks, it.real_token_range.start - 1).end,
                        token_range(toks, it.real_token_range.end - 1).end))

\* BracerIter::text_span
text_span(it, toks) ==
    IF it.real_token_range.start = 0 THEN NoSpan
    ELSE IF it.real_token_range.end = 0 THEN NoSpan
    ELSE LET open_idx == it.real_token_range.start - 1
             close_idx == it.real_token_range.end - 1
         IN IF open_idx >= Len(toks) \/ close_idx >= Len(toks) THEN NoSpan
            ELSE SomeSpan(Range(token_range(toks, open_idx).start,
                                token_range(toks, close_idx).end))

\* the number of bytes of the first n tokens
BytesBefore(n) ==
    n + Cardinality({i \in 1..n : tokens[i] = "Word"})

\* the yielded Branch y is branch i of the tree
IsBranch(y, i) ==
    /\ y.type = "Branch"
    /\ RangeOf(i) = Range(y.iter.real_token_range.start - 1,
                          y.iter.real_token_range.end)

\* C23: text_span() returns None on a top-level BracerIter; on the nested
\* iterator of a branch closed by a real closer it returns the byte range
\* from the first byte of the opener token through the last byte of the
\* closer token; on the nested iterator of a branch left unclosed at end of
\* input the range from the opener's first byte to the end of the last
\* token.
C23_TextSpan ==
    pc \in {"iter", "done", "panic"} =>
        /\ ~text_span(iter(tokens, top_map), tokens).some
        /\ Len(iters) > 0 => ~text_span(iters[1], tokens).some
        /\ \A q \in 1..Len(yielded) : \A i \in BranchIds :
             IsBranch(yielded[q], i) =>
               LET ts == text_span(yielded[q].iter, tokens)
               IN /\ Matched(i) =>
                       ts = SomeSpan(Range(BytesBefore(RangeOf(i).start),
                                           BytesBefore(RangeOf(i).end)))
                  /\ Unclosed(i) =>
                       ts = SomeSpan(Range(BytesBefore(RangeOf(i).start),
                                           BytesBefore(Len(tokens))))

\* a branch closed by its closer and a branch left unclosed, both behind
\* a word, have been yielded
C23_Witness ==
    /\ pc = "done"
    /\ Len(tokens) = 4
    /\ tokens[1] = "Word"
    /\ \E q \in 1..Len(yielded) : \E i \in BranchIds :
         IsBranch(yielded[q], i) /\ Matched(i)
    /\ \E q \in 1..Len(yielded) : \E i \in BranchIds :
         IsBranch(yielded[q], i) /\ Unclosed(i)

\* ------------------------------------------------------------------------
\* Claims about single inputs of the bracer
\* ------------------------------------------------------------------------
\* the tree of the tokens toks has been traversed in full
Rendered(toks) == tokens = toks /\ mode = "deep" /\ pc = "done"

\* C24: for the input `(()` the tree renders as `( ( ) )`, inserted_closes
\* holds exactly one entry and errors exactly one entry, of range [1,3).
C24_UnclosedOuterParen ==
    /\ mode = "deep" /\ tokens = <<"ParenOpen", "ParenOpen", "ParenClose">>
         => pc # "panic"
    /\ Rendered(<<"ParenOpen", "ParenOpen", "ParenClose">>) =>
         /\ rendered = <<"ParenOpen", "ParenOpen", "ParenClose", "ParenClose">>
         /\ Len(top_map.inserted_closes) = 1
         /\ Len(top_map.errors) = 1
         /\ top_map.errors[1][1] = Range(1, 3)

\* C25: for the input `(})` the tree renders as `( { } )` and exactly one
\* inserted close is recorded, for `{`.
C25_MismatchedClose ==
    /\ mode = "deep" /\ tokens = <<"ParenOpen", "BraceClose", "ParenClose">>
         => pc # "panic"
    /\ Rendered(<<"ParenOpen", "BraceClose", "ParenClose">>) =>
         /\ rendered = <<"ParenOpen", "BraceOpen", "BraceClose", "ParenClose">>
         /\ Len(top_map.inserted_closes) = 1
         /\ top_map.inserted_closes[1][2] = "BraceClose"

\* C25, amended: it is the input `({)` that renders as `( { } )` with
\* exactly one inserted close, for `{`, at the index of the `)`; the input
\* `(})` renders as `( )`, with no inserted close and the `}` as its one
\* removed close.
C25_MismatchedCloseAmended ==
    /\ mode = "deep"
         /\ tokens \in {<<"ParenOpen", "BraceOpen", "ParenClose">>,
                        <<"ParenOpen", "BraceClose", "ParenClose">>}
         => pc # "panic"
    /\ Rendered(<<"ParenOpen", "BraceOpen", "ParenClose">>) =>
         /\ rendered = <<"ParenOpen", "BraceOpen", "BraceClose", "ParenClose">>
         /\ top_map.inserted_closes = << <<2, "BraceClose">> >>
         /\ top_map.removed_closes = <<>>
    /\ Rendered(<<"ParenOpen", "BraceClose", "ParenClose">>) =>
         /\ rendered = <<"ParenOpen", "ParenClose">>
         /\ top_map.inserted_closes = <<>>
         /\ top_map.removed_closes = << <<1, "BraceClose">> >>

\* `({)` has been rendered
C25_Witness ==
    /\ Rendered(<<"ParenOpen", "BraceOpen", "ParenClose">>)
    /\ Len(rendered) = 4
    /\ Len(top_map.inserted_closes) = 1

\* ------------------------------------------------------------------------
\* Claims about the tokens of lex_chunk
\* ------------------------------------------------------------------------
\* the lexeme of a Sigil kind
Lexeme(sigil) ==
    (CHOOSE s \in {AllSigils[i] : i \in 1..Len(AllSigils)} :
        s.sigil = sigil).str

\* the end of the Unknown region that holds byte p: the start of the next
\* classified range of the chunk, or the end of the chunk
RegionEnd(p) ==
    LET starts == {r.start : r \in {x \in AllRanges(chunk) : x.start >= p}}
    IN IF starts = {} THEN Len(chunk.text) ELSE Minimum(starts)

\* the sigil lexemes that the text of the region starts with at byte p
LexemesAt(p) ==
    {AllSigils[i].str : i \in 1..Len(AllSigils)}
      \cap {SubSeq(chunk.text, p + 1, q) : q \in p..RegionEnd(p)}

\* C26: the text of every Sigil token is exactly the lexeme of its kind,
\* and it is the longest sigil lexeme that the rest of the Unknown region
\* starts with (`:-` is one ColonDash token); Word and Whitespace tokens
\* are maximal: no two adjacent tokens are both Word or both Whitespace.
C26_GreedyTokens ==
    /\ \A i \in 1..Len(lex_tokens) :
         lex_tokens[i].kind = "Sigil" =>
           /\ Slice(chunk.text, lex_tokens[i].range)
                = Lexeme(lex_tokens[i].sigil)
           /\ \A l \in LexemesAt(lex_tokens[i].range.start) :
                Len(l) <= Len(Lexeme(lex_tokens[i].sigil))
    /\ \A i \in 1..(Len(lex_tokens) - 1) :
         ~(/\ lex_tokens[i].kind \in {"Word", "Whitespace"}
           /\ lex_tokens[i].kind = lex_tokens[i + 1].kind)
    /\ \A i \in 1..Len(lex_tokens) :
         lex_tokens[i].kind \in {"Word", "Whitespace"} =>
           \A p \in lex_tokens[i].range.start..(lex_tokens[i].range.end - 1) :
             token_start(chunk.text[p + 1]) = lex_tokens[i].kind

\* a word of two characters and a ColonDash token have been produced
C26_Witness ==
    /\ lex_pc = "done"
    /\ \E i \in 1..Len(lex_tokens) :
         /\ lex_tokens[i].kind = "Word"
         /\ lex_tokens[i].range.end = lex_tokens[i].range.start + 2
    /\ \E i \in 1..Len(lex_tokens) :
         /\ lex_tokens[i].kind = "Sigil"
         /\ lex_tokens[i].sigil = "ColonDash"
         /\ lex_tokens[i].range.end = lex_tokens[i].range.start + 2

\* ------------------------------------------------------------------------
\* Claims about the cursors of BracerIter
\* ------------------------------------------------------------------------
\* the positions of the Vec that the window r (a Range) covers
Window(r) == (r.start + 1)..r.end

\* the positions in inserted_closes of the entries recorded inside
\* branch i: at a token index behind its opener and up to its end
InsertedIn(i) ==
    {q \in 1..Len(top_map.inserted_closes) :
       /\ RangeOf(i).start < top_map.inserted_closes[q][1]
       /\ top_map.inserted_closes[q][1] <= RangeOf(i).end}

\* C27: whenever a BracerIter yields a Branch, the windows
\* [cursor, cursor+count) of the nested iterator into branches,
\* inserted_closes and removed_closes hold exactly the entries recorded
\* inside that branch: every removed_close and inserted_close of the window
\* has a token index within the branch's token range, and none belongs to
\* the parent or to a sibling.
C27_NestedWindows ==
    \A q \in 1..Len(yielded) : \A i \in BranchIds :
        IsBranch(yielded[q], i) =>
          /\ Window(yielded[q].iter.branches) = Descendants(i)
          /\ Window(yielded[q].iter.removed_closes) = RemovedIn(i)
          /\ Window(yielded[q].iter.inserted_closes) \subseteq InsertedIn(i)
          /\ Cardinality(Window(yielded[q].iter.inserted_closes))
               = top_map.branches[i].inserted_closes

\* the token indices of the Token results among the first n yielded, of the
\* tokens that are not bracket sigils
RECURSIVE YieldedWords(_)
YieldedWords(n) ==
    IF n = 0 THEN <<>>
    ELSE IF yielded[n].type = "Token"
            /\ yielded[n].sigil \notin OpenSigils \cup CloseSigils
    THEN Append(YieldedWords(n - 1), yielded[n].index)
    ELSE YieldedWords(n - 1)

StrictlyIncreasing(s) == \A a, b \in 1..Len(s) : a < b => s[a] < s[b]

C29_FramesBelowUnchanged ==
    [][(AtMatchedClose /\ index' = index + 1) =>
         LET j == MatchPos(stack, open_sigil_of(tokens[index + 1]))
         IN /\ Len(stack') = j - 1
            /\ \A p \in 1..(j - 1) : stack'[p] = stack[p]
      ]_vars

\* C29 (amended): a close sigil of kind k is matched with the innermost
\* frame of kind k: that frame and the frames above it leave the stack, and
\* the branch [open_index, c+1) of that frame is appended to the map below.
\* Every frame below it stays on the stack with its open index and sigil and
\* with every entry its map had accumulated; the frames below the one
\* directly under the opener are unchanged altogether, and the one directly
\* under it only receives, behind its older entries, the branches this closer
\* closed and their entries. A frame leaves the stack only at a close sigil
\* that is matched (with it or with a frame below it) or at end of input.
C29_FramesBelowKept ==
    /\ [][(AtMatchedClose /\ index' = index + 1) =>
            LET c == index
                j == MatchPos(stack, open_sigil_of(tokens[c + 1]))
                par2 == parent_brace_map(stack', top_map')
            IN /\ stack[j].open_sigil = open_sigil_of(tokens[c + 1])
               /\ \A q \in (j + 1)..Len(stack) :
                    stack[q].open_sigil # open_sigil_of(tokens[c + 1])
               /\ Len(stack') = j - 1
               /\ \E q \in 1..Len(par2.branches) :
                    par2.branches[q].real_token_range
                        = Range(stack[j].open_index, c + 1)
               /\ \A p \in 1..(j - 1) :
                    /\ stack'[p].open_index = stack[p].open_index
                    /\ stack'[p].open_sigil = stack[p].open_sigil
                    /\ IsPrefix(stack[p].brace_map.branches,
                                stack'[p].brace_map.branches)
                    /\ IsPrefix(stack[p].brace_map.inserted_closes,
                                stack'[p].brace_map.inserted_closes)
                    /\ IsPrefix(stack[p].brace_map.removed_closes,
                                stack'[p].brace_map.removed_closes)
                    /\ IsPrefix(stack[p].brace_map.errors,
                                stack'[p].brace_map.errors)
                    /\ \A q \in (Len(stack[p].brace_map.branches) + 1)
                                  ..Len(stack'[p].brace_map.branches) :
                         stack'[p].brace_map.branches[q].real_token_range.start
                             >= stack[j].open_index
               /\ \A p \in 1..(j - 2) : stack'[p] = stack[p]
               /\ j = 1 => top_map' # top_map
               /\ j > 1 => top_map' = top_map
         ]_vars
    /\ [][Len(stack') < Len(stack) => (AtMatchedClose \/ pc = "unwind")]_vars

\* C29 witness: the close sigil just consumed was matched with the innermost
\* of two open frames of its kind, and two frames or more are still open
\* below the branch it closed.
C29_Witness ==
    /\ pc = "scan" /\ index > 0 /\ tokens[index] \in CloseSigils
    /\ Len(stack) >= 2
    /\ \E p \in 1..Len(stack) : stack[p].open_sigil = open_sigil_of(tokens[index])
    /\ LET bs == stack[Len(stack)].brace_map.branches
       IN /\ Len(bs) > 0
          /\ bs[Len(bs)].real_token_range.end = index
          /\ bs[Len(bs)].close_sigil = tokens[index]

\* ------------------------------------------------------------------------
\* C30: every close sigil is accounted for once
\* ------------------------------------------------------------------------
\* the positions (1-based) of the close sigils of the input
ClosePositions == {c \in 1..Len(tokens) : tokens[c] \in CloseSigils}

\* the branches whose real_token_range has the token at position c as last
\* token, whose close_sigil is that token and whose open_sigil is its opener
EndsAt(c) ==
    {i \in BranchIds :
       /\ RangeOf(i).end = c
       /\ top_map.branches[i].close_sigil = tokens[c]
       /\ top_map.branches[i].open_sigil = open_sigil_of(tokens[c])}

\* the number of entries of removed_closes for the token at position c
RemovedAt(c) ==
    Cardinality({q \in 1..Len(top_map.removed_closes) :
                   top_map.removed_closes[q][1] = c - 1})

\* C30 (as stated): in the finished tree every close sigil is either the
\* last token of exactly one branch of its kind and in no entry of
\* removed_closes, or the last token of no such branch and in exactly one
\* entry of removed_closes.
C30_CloseAccountedOnce ==
    Built =>
      \A c \in ClosePositions :
         \/ Cardinality(EndsAt(c)) = 1 /\ RemovedAt(c) = 0
         \/ Cardinality(EndsAt(c)) = 0 /\ RemovedAt(c) = 1

\* C30 (amended): in the finished tree every close sigil is either the
\* closer of exactly one branch (the innermost branch of its kind that it
\* ends) and in no entry of removed_closes, or it ends no branch of its kind
\* and is in exactly one entry of removed_closes, which carries its sigil.
\* Besides the branch it closed, a close sigil is also the last token of
\* every enclosing branch of its kind that ends right behind it without a
\* closer of its own: one closed by the next token, the closer of a branch
\* around it, or, when the close sigil is the last token of the input, one
\* still open at end of input.
C30_CloseAccountedOnceAmended ==
    Built =>
      \A c \in ClosePositions :
         LET closed == {i \in EndsAt(c) : Matched(i)}
         IN /\ \/ Cardinality(closed) = 1 /\ RemovedAt(c) = 0
               \/ EndsAt(c) = {} /\ RemovedAt(c) = 1
            /\ \A q \in 1..Len(top_map.removed_closes) :
                 top_map.removed_closes[q][1] = c - 1 =>
                     top_map.removed_closes[q][2] = tokens[c]
            /\ \A i \in EndsAt(c) \ closed :
                 /\ \/ Unclosed(i) /\ c = Len(tokens)
                    \/ /\ ClosedByOther(i)
                       /\ tokens[c + 1] \in CloseSigils
                       /\ tokens[c + 1] # tokens[c]
                       /\ Count(top_map.inserted_closes, <<c, tokens[c]>>) >= 1
                 /\ \A j \in closed : j \in Descendants(i)

\* C30 witness: a finished tree with a stray close sigil in removed_closes
\* and a close sigil that closed one branch while being the last token of an
\* enclosing branch of its kind left open at end of input.
C30_Witness ==
    /\ Built
    /\ \E c \in ClosePositions : RemovedAt(c) = 1
    /\ \E c \in ClosePositions :
         /\ Cardinality(EndsAt(c)) = 2
         /\ Cardinality({i \in EndsAt(c) : Matched(i)}) = 1

\* ------------------------------------------------------------------------
\* C31: one branch for every open sigil
\* ------------------------------------------------------------------------
\* the positions (1-based) of the open sigils of the input
OpenPositions == {c \in 1..Len(tokens) : tokens[c] \in OpenSigils}

\* the branches whose real_token_range starts at the token at position c
StartsAt(c) == {i \in BranchIds : RangeOf(i).start = c - 1}

\* C31: in the finished tree every open sigil has exactly one Branch that
\* starts at its index, with its sigil as open_sigil and the paired closer
\* as close_sigil; there are as many branches as open sigils; and any two
\* branch ranges are disjoint or one contains the other.
C31_OneBranchPerOpener ==
    Built =>
      /\ \A c \in OpenPositions :
           /\ Cardinality(StartsAt(c)) = 1
           /\ \A i \in StartsAt(c) :
                /\ top_map.branches[i].open_sigil = tokens[c]
                /\ top_map.branches[i].close_sigil = close_sigil(tokens[c])
      /\ Len(top_map.branches) = Cardinality(OpenPositions)
      /\ \A i, j \in BranchIds :
           i # j => \/ Disjoint(RangeOf(i), RangeOf(j))
                    \/ Inside(RangeOf(i), RangeOf(j))
                    \/ Inside(RangeOf(j), RangeOf(i))

\* C31 witness: a finished tree with a branch closed by its own closer, a
\* branch closed by the closer of an enclosing branch and a branch left open
\* at end of input.
C31_Witness ==
    /\ Built
    /\ \E i, j, k \in BranchIds :
         /\ Matched(i) /\ ClosedByOther(j) /\ Unclosed(k)
         /\ Disjoint(RangeOf(i), RangeOf(k)) \/ Inside(RangeOf(i), RangeOf(k))

\* ------------------------------------------------------------------------
\* Part G: package world resolution (crates/bct/src/package_resolve2.rs)
\* ------------------------------------------------------------------------
\* the number of import demands in the whole ImportDemandMap
MaxDemands == 3

\* the modules a package world can hold, <<import space, package name,
\* module name>>, in the order of the nested BTreeMaps of PackageWorldMap
Slots ==
    << <<"sys", "alloc", "a">>, <<"sys", "core", "a">>, <<"sys", "core", "b">> >>

\* the import demands a module can make: (import space, package alias,
\* module alias)
DemandChoices ==
    { <<"pkg", "core", "a">>, <<"pkg", "alloc", "b">>,
      <<"sys", "core", "a">>, <<"sys", "core", "b">>,
      <<"sys", "alloc", "a">>, <<"local", "core", "a">> }

\* PackageWorldMap::flatten_iter: the records of the world in map order; the
\* PackageModule of the record at place i is identified by i
flatten_iter(world) == SelectSeq(Slots, LAMBDA r : r \in world)

\* PackageWorldMap::module_map: for every import space the map from
\* format!("{}/{}", package_name, module_name), kept as the pair of names,
\* to the module; a map is the set of its <<key, value>> entries
module_map(records) ==
    [space \in {records[i][1] : i \in 1..Len(records)} |->
        {<< <<records[i][2], records[i][3]>>, i >> :
            i \in {k \in 1..Len(records) : records[k][1] = space}}]

\* Package::modules of the package of the record at place i: module name to
\* module
package_modules(records, i) ==
    {<<records[k][3], k>> :
        k \in {k \in 1..Len(records) :
                 /\ records[k][1] = records[i][1]
                 /\ records[k][2] = records[i][2]}}

\* module_world_map for the package of the record at place i: module_map
\* with the package's own modules inserted as import space "pkg"
module_world_map(records, i) ==
    ("pkg" :> package_modules(records, i)) @@ module_map(records)

\* BTreeMap::get on a map kept as a set of entries: the set of the values
\* found, empty for None
map_get(entries, key) == {e[2] : e \in {e \in entries : e[1] = key}}

\* lookup_import: the set holding the module found, empty for None
lookup_import(mwm, import_demand) ==
    IF import_demand[1] \in DOMAIN mwm
    THEN IF import_demand[1] = "pkg"
         THEN map_get(mwm[import_demand[1]], import_demand[3])
         ELSE map_get(mwm[import_demand[1]],
                      <<import_demand[2], import_demand[3]>>)
    ELSE {}

\* ResolvedPackageModule
Resolved(m) == [tag |-> "Resolved", module |-> m]

Unresolved == [tag |-> "Unresolved", module |-> 0]

\* resolve_package_world, one pass of the loop over flatten_iter: the
\* module_deps of the record at place i
module_deps(records, demands, i) ==
    UNION {LET found == lookup_import(module_world_map(records, i),
                                      demands[i][k])
           IN IF found # {}
              THEN {<<demands[i][k], Resolved(m)>> : m \in found}
              ELSE {<<demands[i][k], Unresolved>>}
           : k \in 1..Len(demands[i])}

\* PackageWorldModuleGraph::edges: the Resolved modules of every entry
edges(graph) ==
    [i \in 1..Len(graph) |->
        {e[2].module : e \in {e \in graph[i] : e[2].tag = "Resolved"}}]

\* the first of a set of modules in BTreeSet order
first_of(S) == CHOOSE m \in S : \A o \in S : m <= o

\* what dfs_detect_cycle returns, with visit_state as it leaves it
DfsResult(cycle, visit_state) == [cycle |-> cycle, visit_state |-> visit_state]

\* mutant of dfs_detect_cycle: a node that is being visited is no cycle
dfs_never_cycle(node, edge_map, visit_state) == DfsResult(FALSE, visit_state)

RECURSIVE dfs_detect_cycle(_, _, _)
RECURSIVE dfs_deps(_, _, _)
\* dfs_detect_cycle
dfs_detect_cycle(node, edge_map, visit_state) ==
    IF visit_state[node] = "Visiting" THEN DfsResult(TRUE, visit_state)
    ELSE IF visit_state[node] = "Visited" THEN DfsResult(FALSE, visit_state)
    ELSE LET r == dfs_deps(edge_map[node], edge_map,
                           [visit_state EXCEPT ![node] = "Visiting"])
         IN IF r.cycle
            THEN r
            ELSE DfsResult(FALSE, [r.visit_state EXCEPT ![node] = "Visited"])

\* dfs_detect_cycle, the loop `for &dep in deps` over the deps left
dfs_deps(deps, edge_map, visit_state) ==
    IF deps = {} THEN DfsResult(FALSE, visit_state)
    ELSE LET dep == first_of(deps)
             r == dfs_detect_cycle(dep, edge_map, visit_state)
         IN IF r.cycle THEN r
            ELSE dfs_deps(deps \ {dep}, edge_map, r.visit_state)

\* detect_cycles, the loop `for node in nodes` from the given node on
RECURSIVE detect_from(_, _, _)
detect_from(node, edge_map, visit_state) ==
    IF node > Len(edge_map) THEN "Ok"
    ELSE IF visit_state[node] = "Unvisited"
         THEN LET r == dfs_detect_cycle(node, edge_map, visit_state)
              IN IF r.cycle THEN "Err"
                 ELSE detect_from(node + 1, edge_map, r.visit_state)
         ELSE detect_from(node + 1, edge_map, visit_state)

\* detect_cycles: "Ok", "Err" for Err(CycleDetected), "panic" for the
\* assertion that every dep is a key of edges
detect_cycles(edge_map) ==
    IF \E i \in 1..Len(edge_map) : \E dep \in edge_map[i] :
           dep \notin 1..Len(edge_map)
    THEN "panic"
    ELSE detect_from(1, edge_map, [n \in 1..Len(edge_map) |-> "Unvisited"])

\* validate_graph
validate_graph(graph) == detect_cycles(edges(graph))

\* the number of import demands in the map
RECURSIVE demand_total(_)
demand_total(demands) ==
    IF demands = <<>> THEN 0
    ELSE Len(demands[1]) + demand_total(Tail(demands))

\* the caller holds a PackageWorldMap and an ImportDemandMap with an entry,
\* still empty, for every module of the world
ResolverInit ==
    /\ BracerIdle
    /\ LexIdle
    /\ DocIdle
    /\ LinesIdle
    /\ GraphIdle
    /\ \E world \in SUBSET {Slots[i] : i \in 1..Len(Slots)} :
         resolver = [world |-> world,
                     demands |-> [i \in 1..Cardinality(world) |-> <<>>],
                     module_edges |-> <<>>,
                     pc |-> "input",
                     result |-> [tag |-> "none", graph |-> <<>>]]

resolver_only == UNCHANGED <<builder, builder_calls, graph_pc, bracer_vars,
                             lex_vars, doc_vars, lines_vars>>

\* the caller adds an import demand to the vector of a module
AddDemand ==
    /\ resolver.pc = "input"
    /\ demand_total(resolver.demands) < MaxDemands
    /\ \E i \in 1..Len(resolver.demands) : \E d \in DemandChoices :
         resolver' = [resolver EXCEPT !.demands[i] = Append(@, d)]
    /\ resolver_only

\* resolve_package_world: one pass of the loop over flatten_iter
ResolveModule ==
    /\ resolver.pc \in {"input", "resolve"}
    /\ Len(resolver.module_edges) < Len(resolver.demands)
    /\ resolver' =
         [resolver EXCEPT
            !.pc = "resolve",
            !.module_edges =
                Append(@, module_deps(flatten_iter(resolver.world),
                                      resolver.demands,
                                      Len(resolver.module_edges) + 1))]
    /\ resolver_only

\* resolve_package_world after the loop: validate_graph(..).map(|()| graph)
ValidateGraph ==
    /\ resolver.pc \in {"input", "resolve"}
    /\ Len(resolver.module_edges) = Len(resolver.demands)
    /\ LET v == validate_graph(resolver.module_edges)
       IN resolver' =
            [resolver EXCEPT
               !.pc = "done",
               !.result = IF v = "Ok"
                          THEN [tag |-> "Ok", graph |-> resolver.module_edges]
                          ELSE [tag |-> v, graph |-> <<>>]]
    /\ resolver_only

ResolverNext ==
    \/ AddDemand
    \/ ResolveModule
    \/ ValidateGraph

ResolverSpec == ResolverInit /\ [][ResolverNext]_vars

\* ------------------------------------------------------------------------
\* Claims about package world resolution
\* ------------------------------------------------------------------------
\* the modules of the world, by place
WorldModules == 1..Len(resolver.demands)

\* the modules that the import demand d of the module at place i denotes:
\* the module of that name in its own package for the space "pkg", the
\* module of that space, package and name otherwise
Denoted(i, d) ==
    LET records == flatten_iter(resolver.world)
    IN {j \in 1..Len(records) :
          records[j] = IF d[1] = "pkg"
                       THEN <<records[i][1], records[i][2], d[3]>>
                       ELSE d}

\* the import demands of the module at place i
DemandsOf(i) == {resolver.demands[i][k] : k \in 1..Len(resolver.demands[i])}

\* the directed graph of the resolved imports between the modules
ImportEdges ==
    {e \in WorldModules \X WorldModules :
        \E d \in DemandsOf(e[1]) : e[2] \in Denoted(e[1], d)}

\* the pairs of modules joined by a path of at most k + 1 edges of R
RECURSIVE PathsUpTo(_, _)
PathsUpTo(R, k) ==
    IF k = 0 THEN R
    ELSE LET P == PathsUpTo(R, k - 1)
         IN P \cup {e \in WorldModules \X WorldModules :
                      \E b \in WorldModules : <<e[1], b>> \in P /\ <<b, e[2]>> \in R}

HasCycle ==
    \E i \in WorldModules : <<i, i>> \in PathsUpTo(ImportEdges, Len(resolver.demands))

\* the entries the graph must hold for the module at place i: every demand
\* with the module it denotes, or with Unresolved when it denotes none
ExpectedEntries(i) ==
    {x \in {<<d, Resolved(j)>> : d \in DemandsOf(i), j \in WorldModules} :
        x[2].module \in Denoted(i, x[1])}
      \cup {<<d, Unresolved>> : d \in {d \in DemandsOf(i) : Denoted(i, d) = {}}}

C32_OkWithUnresolved ==
    /\ resolver.pc = "done"
    /\ resolver.result.tag = "Ok"
    /\ \E i \in WorldModules : \E e \in resolver.module_edges[i] : e[2] = Unresolved
    /\ ImportEdges # {}

\* ------------------------------------------------------------------------
\* C33: the Error range of a document
\* ------------------------------------------------------------------------
\* C33: for every source text the segmenter emits at most one Error range;
\* when it emits one, the range ends at len(text) and no Comment or String
\* range starts after it. The same holds of the ranges collected so far in
\* every state of the scan, and the scan makes no step after an Error range.
C33_OneTrailingError ==
    /\ Len(smap.chunk_wip.errors) <= 1
    /\ \A i \in 1..Len(smap.chunk_wip.errors) :
         /\ smap.chunk_wip.errors[i].end = Len(source)
         /\ smap.position = Len(source)
         /\ \A r \in AllRanges(smap.chunk_wip) :
              r.start <= smap.chunk_wip.errors[i].start
    /\ smap_pc = "done" =>
         /\ chunk_in.errors = smap.chunk_wip.errors
         /\ chunk_in.comments = smap.chunk_wip.comments
         /\ chunk_in.strings = smap.chunk_wip.strings
         /\ chunk_in.text = source

\* C33 witness: a segmented text with a Comment or String range and,
\* behind it, an Error range that ends the text.
C33_Witness ==
    /\ smap_pc = "done"
    /\ Len(chunk_in.comments) + Len(chunk_in.strings) >= 1
    /\ Len(chunk_in.errors) = 1
    /\ chunk_in.errors[1].start > 0
    /\ chunk_in.errors[1].end = Len(chunk_in.text)

\* ------------------------------------------------------------------------
\* C34, C36: the four collections of the builder
\* ------------------------------------------------------------------------
\* the modules of the modules vector
ModulesOf(b) == {b.modules[i] : i \in 1..Len(b.modules)}

\* the source modules of the imports recorded for module m
SourcesOf(b, m) == {b.imports[m][k].source_module : k \in 1..Len(b.imports[m])}

\* the four collections of b describe the same modules, each once
SameModules(b) ==
    /\ Cardinality(ModulesOf(b)) = Len(b.modules)
    /\ b.module_by_id = ModulesOf(b)
    /\ DOMAIN b.imports = ModulesOf(b)
    /\ DOMAIN b.dependencies = ModulesOf(b)

\* C34: in every state of the builder, and so in every built ModuleGraph,
\* modules, module_by_id, imports and dependencies describe the same set of
\* modules, with one entry more in each after every add_module call and the
\* same entries after every other call, and for every module m
\* dependencies(m) is exactly the set of the source modules of imports(m).
C34_CollectionsAgree ==
    /\ [](/\ SameModules(builder)
          /\ \A m \in ModulesOf(builder) :
               builder.dependencies[m] = SourcesOf(builder, m))
    /\ [][IF Len(builder'.modules) # Len(builder.modules)
          THEN /\ Len(builder'.modules) = Len(builder.modules) + 1
               /\ builder' = add_module(builder)
               /\ Cardinality(builder'.module_by_id)
                    = Cardinality(builder.module_by_id) + 1
          ELSE /\ builder'.modules = builder.modules
               /\ builder'.module_by_id = builder.module_by_id]_vars

\* C34 witness: a built graph of two modules or more where a module has two
\* imports from the same source module and so one dependency.
C34_Witness ==
    /\ graph_pc = "built"
    /\ Len(builder.modules) >= 2
    /\ \E m \in ModulesOf(builder) :
         /\ Len(builder.imports[m]) = 2
         /\ Cardinality(builder.dependencies[m]) = 1

\* the number of imports recorded in b
RECURSIVE ImportTotal(_)
ImportTotal(imports) ==
    IF imports = <<>> THEN 0
    ELSE Len(imports[1]) + ImportTotal(Tail(imports))

\* C36: add_import called with a module_id that no add_module call on this
\* builder has returned leaves the builder entirely unchanged: no import, no
\* dependency and no module is added, whatever the other arguments are.
C36_UnknownModuleNoEffect ==
    \A module_id \in ModuleIds \ ModulesOf(builder) :
       \A source_module \in ModuleIds : \A local_name, export_name \in Names :
          add_import(builder, module_id, local_name, source_module,
                     export_name) = builder

\* C36 witness: a builder with a module and an import on which a call more
\* than the modules and imports it holds has been made, an add_import with
\* an unknown module_id.
C36_Witness ==
    /\ graph_pc = "building"
    /\ Len(builder.modules) >= 1
    /\ ImportTotal(builder.imports) >= 1
    /\ builder_calls > Len(builder.modules) + ImportTotal(builder.imports)
    /\ ModuleIds \ ModulesOf(builder) # {}

Appended(old, new) ==
    IF Len(new) = Len(old) + 1 THEN {new[Len(new)]} ELSE {}

\* an iteration of the scan loop can be made and does not panic: no start
\* character is left and State::map returns, or step takes one of the five
\* arms that move the position
ScanCanStep ==
    \/ next_start_char_index = -1
    \/ map_arm \in {"comments", "comment_error", "strings", "string_error"}
    \/ map_arm = "none" /\ next_start_char_index + 1 <= Len(source)

\* C37: the segmenter terminates on every source text: every iteration of
\* its scan loop moves the position on by at least one byte, the comment,
\* string or error range it appends is not empty and ends at the new
\* position, the position never exceeds len(text), and no iteration panics
\* or is stuck: until the Chunk is returned an iteration can be made, so the
\* loop returns within len(text) + 1 iterations.
C37_SegmenterTerminates ==
    /\ [][(smap_pc = "scan" /\ smap' # smap) =>
            /\ smap'.position >= smap.position + 1
            /\ smap'.position <= Len(source)
            /\ \A r \in Appended(smap.chunk_wip.comments, smap'.chunk_wip.comments)
                        \cup Appended(smap.chunk_wip.strings, smap'.chunk_wip.strings)
                        \cup Appended(smap.chunk_wip.errors, smap'.chunk_wip.errors) :
                 /\ r.start < r.end
                 /\ r.end = smap'.position
         ]_vars
    /\ [][smap_pc = "scan" => (smap' # smap \/ smap_pc' = "done")]_vars
    /\ [](smap_pc # "panic" /\ smap.position <= Len(source))
    /\ [](smap_pc = "scan" => ScanCanStep)

\* C37 witness: the scan has ended on a text where it appended a range and
\* stepped over a `/` that starts no comment.
C37_Witness ==
    /\ smap_pc = "done"
    /\ smap.position <= Len(source)
    /\ AllRanges(smap.chunk_wip) # {}
    /\ \E i \in 1..Len(source) :
         /\ source[i] = "/"
         /\ \A r \in AllRanges(smap.chunk_wip) : ~(r.start < i /\ i <= r.end)

====
